---------------------------- MODULE Spec2Model ----------------------------
(***************************************************************************)
(* A model of the keyboard-shortcut composables of shortcut-vue-example.   *)
(*                                                                         *)
(*   - defineShortcuts (VueUse version), src/composables/defineShortcuts.ts*)
(*     lines 1-241: parseShortcut, the typing guard, the chain history and *)
(*     its debounce timer, the two keydown listeners, the process-wide     *)
(*     ShortcutRegistry.                                                   *)
(*   - defineShortcuts (hotkeys-js version), lines 267-390: setupHotkeys,  *)
(*     bindShortcuts, unbindAll, changeScope over hotkeys-js's handlers.   *)
(*   - createScopedHotkeys, lines 415-453, over the hotkeys-js scope table.*)
(*   - createHotkeyConflictDetector, lines 544-585.                        *)
(*                                                                         *)
(* A JavaScript string is modelled as a sequence of one-character strings, *)
(* so that toLowerCase, includes, startsWith, split, join and the two      *)
(* shape regexes are computed, not assumed.                                *)
(***************************************************************************)
EXTENDS Integers, Sequences, FiniteSets, TLC

VARIABLES
    \* ---- defineShortcuts (VueUse version) ----
    macOS,            \* whether navigator.userAgent names a Mac (line 149)
    focus,            \* useActiveElement(): what document.activeElement is
    defined,          \* the components that have called defineShortcuts
    listeners,        \* window's keydown listeners, in registration order
    config,           \* per component: configValue, the shortcut strings (line 144)
    shortcuts,        \* per component: the parsed, active shortcuts (line 160)
    disableOnInputs,  \* per component: the option of line 141
    history,          \* per component: the chain history (line 165)
    timer,            \* per component: time left on the debounce timer, NoTimer if none
    registered,       \* ShortcutRegistry.registered: a Map, in insertion order
    warnings,         \* the conflict reports console.warn has printed
    \* ---- what the last step did (observation only) ----
    ev,               \* the last step: a keydown event or another operation
    invoked,          \* the handlers the last step invoked, in order
    prevented,        \* whether the last keydown had preventDefault called
    seen,             \* per invoked handler: e.defaultPrevented as it was called
    prev,             \* the keydown before: its key and who saw it with empty history
    since,            \* time units since the last keydown (capped)
    sincePush,        \* per component: time units since its last history push (capped)
    monitoring,       \* whether prev and since are being recorded in this run
    \* ---- hotkeys-js global state and createScopedHotkeys ----
    hkScope,          \* hotkeys.getScope()
    hkHandlers,       \* hotkeys' handler table, in binding order
    scoped,           \* per scoped manager: the keys of its `shortcuts` Map
    hkEv,             \* the last step: a key event hotkeys-js saw, or another operation
    hkInvoked,        \* the handlers the last step invoked, in order
    hkFilter,         \* hotkeys.filter: which function is installed
    \* ---- defineShortcuts (hotkeys-js version) ----
    hotkeyBindings,   \* per binding: its options, currentScope and boundKeys
    hbDetached,       \* per binding: unbindAll ran and nothing was bound since
    \* ---- createHotkeyConflictDetector ----
    registeredKeys,   \* the detector's Map, in insertion order
    cdCalls,          \* the calls made on the detector so far, in order
    \* ---- createKeySequenceDetector ----
    sequence,         \* the sequence argument, <<>> before the detector is created
    resetOption,      \* options.reset (line 463)
    currentIndex,     \* line 464
    seqTimer,         \* line 465: time left on the timeout, NoTimer if none (null)
    seqListening,     \* whether `handler` is a keydown listener of document
    seqEv,            \* the last step: a keydown or another operation
    seqCalled,        \* how often the last step invoked the callback
    seqLog,           \* every step so far that the detector could see, in order
    seqGap,           \* time units since the last keydown (capped)
    \* ---- parseShortcut, called on its own ----
    pTokens,          \* the tokens the spec string was written from
    pKey,             \* the spec string: the tokens joined by '_'
    pMac,             \* the macOS argument
    pBase,            \* `base` as lines 112-129 build it, Null if rejected
    pOut              \* what parseShortcut returned

vueVars == <<macOS, focus, defined, listeners, config, shortcuts, disableOnInputs, history,
             timer, registered, warnings, ev, invoked, prevented, seen, prev, since,
             sincePush, monitoring>>
hkVars == <<hkScope, hkHandlers, scoped, hkEv, hkInvoked, hkFilter,
           hotkeyBindings, hbDetached>>
cdVars == <<registeredKeys, cdCalls>>
parseVars == <<pTokens, pKey, pMac, pBase, pOut>>
seqVars == <<sequence, resetOption, currentIndex, seqTimer, seqListening, seqEv,
             seqCalled, seqLog, seqGap>>
vars == <<vueVars, hkVars, cdVars, parseVars, seqVars>>

---------------------------------------------------------------------------
(* Bounds *)

\* the chainDelay option of a binding call, in time units (default 800)
chainDelay == 2
\* the longest chain history the model lets grow
MaxHistory == 2
\* the most handlers the model lets the hotkeys-js table hold
MaxHandlers == 3
\* the most calls the model makes on one conflict detector
MaxDetectorCalls == 3
\* the most underscore-separated tokens of a spec string given to parseShortcut
MaxTokens == 3
\* the longest hyphen-grammar spec string given to parseShortcut
MaxSpecLen == 5
\* the timeout option of a key sequence detector, in time units (default 2000)
timeout == 2
\* the most steps the model lets one key sequence detector see
MaxSeqEvents == 5

---------------------------------------------------------------------------
(* JavaScript strings *)

UpperChars == <<"A","B","C","D","E","F","G","H","I","J","K","L","M",
                "N","O","P","Q","R","S","T","U","V","W","X","Y","Z">>
LowerChars == <<"a","b","c","d","e","f","g","h","i","j","k","l","m",
                "n","o","p","q","r","s","t","u","v","w","x","y","z">>

\* the case mappings of the letters, as lookup tables
LowerTable ==
    [c \in {UpperChars[i] : i \in 1..26} |->
        LowerChars[CHOOSE i \in 1..26 : UpperChars[i] = c]]
UpperTable ==
    [c \in {LowerChars[i] : i \in 1..26} |->
        UpperChars[CHOOSE i \in 1..26 : LowerChars[i] = c]]

LowerChar(c) == IF c \in DOMAIN LowerTable THEN LowerTable[c] ELSE c
UpperChar(c) == IF c \in DOMAIN UpperTable THEN UpperTable[c] ELSE c

\* String.prototype.toLowerCase
ToLowerCase(s) == [i \in 1..Len(s) |-> LowerChar(s[i])]

\* String.prototype.includes
Includes(s, sub) ==
    \E i \in 0..(Len(s) - Len(sub)) : SubSeq(s, i + 1, i + Len(sub)) = sub

\* String.prototype.startsWith
StartsWith(s, p) == Len(p) <= Len(s) /\ SubSeq(s, 1, Len(p)) = p

\* String.prototype.split, on a one-character separator
RECURSIVE Split(_, _)
Split(s, sep) ==
    IF \E i \in 1..Len(s) : s[i] = sep
    THEN LET i == CHOOSE j \in 1..Len(s) :
                      s[j] = sep /\ \A m \in 1..(j - 1) : s[m] # sep
         IN  <<SubSeq(s, 1, i - 1)>> \o Split(SubSeq(s, i + 1, Len(s)), sep)
    ELSE <<s>>

\* Array.prototype.join, on a one-character separator
RECURSIVE Join(_, _)
Join(parts, sep) ==
    IF Len(parts) = 0 THEN <<>>
    ELSE IF Len(parts) = 1 THEN parts[1]
    ELSE parts[1] \o <<sep>> \o Join(Tail(parts), sep)

\* Array.prototype.includes
ArrayIncludes(xs, x) == \E i \in 1..Len(xs) : xs[i] = x

\* /^[^X]+.*X.*[^X]+$/ for a separator X: a run of non-X characters, then
\* anything, an X, anything, and a closing run of non-X characters.
ShapeRegexTest(k, sep) ==
    \E a, p, q \in 1..Len(k) :
        /\ a < p /\ p < q
        /\ \A i \in 1..a : k[i] # sep
        /\ k[p] = sep
        /\ \A i \in q..Len(k) : k[i] # sep

chainedShortcutRegex(k) == ShapeRegexTest(k, "-")
combinedShortcutRegex(k) == ShapeRegexTest(k, "_")

---------------------------------------------------------------------------
(* parseShortcut *)

Null == [null |-> TRUE]

tok_meta == <<"m","e","t","a">>
tok_command == <<"c","o","m","m","a","n","d">>
tok_ctrl == <<"c","t","r","l">>
tok_shift == <<"s","h","i","f","t">>
tok_alt == <<"a","l","t">>
tok_option == <<"o","p","t","i","o","n">>
ModifierTokens == <<tok_meta, tok_command, tok_ctrl, tok_shift, tok_alt, tok_option>>

NotModifier(x) == ~ArrayIncludes(ModifierTokens, x)

\* line 123: p.filter(x => ![...modifier tokens].includes(x))
RECURSIVE FilterNotModifier(_)
FilterNotModifier(xs) ==
    IF Len(xs) = 0 THEN <<>>
    ELSE (IF NotModifier(xs[1]) THEN <<xs[1]>> ELSE <<>>)
             \o FilterNotModifier(Tail(xs))

\* lines 112-129: the flags and key before platform normalization
ParseBaseNoAliases(k, chained) ==
    IF chained
    THEN [key |-> k, metaKey |-> FALSE, ctrlKey |-> FALSE,
          shiftKey |-> FALSE, altKey |-> FALSE]
    ELSE LET p == Split(k, "_")
         IN  [key |-> Join(FilterNotModifier(p), "_"),
              metaKey |-> ArrayIncludes(p, tok_meta),
              ctrlKey |-> ArrayIncludes(p, tok_ctrl),
              shiftKey |-> ArrayIncludes(p, tok_shift),
              altKey |-> ArrayIncludes(p, tok_alt)]
ParseBase(k, chained) ==
    IF chained
    THEN [key |-> k, metaKey |-> FALSE, ctrlKey |-> FALSE,
          shiftKey |-> FALSE, altKey |-> FALSE]
    ELSE LET p == Split(k, "_")
         IN  [key |-> Join(FilterNotModifier(p), "_"),
              metaKey |-> ArrayIncludes(p, tok_meta) \/ ArrayIncludes(p, tok_command),
              ctrlKey |-> ArrayIncludes(p, tok_ctrl),
              shiftKey |-> ArrayIncludes(p, tok_shift),
              altKey |-> ArrayIncludes(p, tok_alt) \/ ArrayIncludes(p, tok_option)]

\* lines 131-134
NormalizePlatformAnyMeta(base, mac) ==
    IF ~mac /\ base.metaKey
    THEN [base EXCEPT !.metaKey = FALSE, !.ctrlKey = TRUE]
    ELSE base
NormalizePlatform(base, mac) ==
    IF ~mac /\ base.metaKey /\ ~base.ctrlKey
    THEN [base EXCEPT !.metaKey = FALSE, !.ctrlKey = TRUE]
    ELSE base

\* lines 102-137
parseShortcutHyphenFirst(key, handler, mac) ==
    LET k == ToLowerCase(key)
        chained == Includes(k, <<"-">>)
        combined == Includes(k, <<"_">>) /\ ~chained
    IN  IF chained /\ ~chainedShortcutRegex(k) THEN Null
        ELSE IF combined /\ ~combinedShortcutRegex(k) THEN Null
        ELSE LET base == NormalizePlatform(ParseBase(k, chained), mac)
             IN  [handler |-> handler, chained |-> chained, key |-> base.key,
                  ctrlKey |-> base.ctrlKey, metaKey |-> base.metaKey,
                  shiftKey |-> base.shiftKey, altKey |-> base.altKey]
parseShortcut(key, handler, mac) ==
    LET k == ToLowerCase(key)
        chained == Includes(k, <<"-">>) /\ ~Includes(k, <<"_">>)
        combined == Includes(k, <<"_">>)
    IN  IF chained /\ ~chainedShortcutRegex(k) THEN Null
        ELSE IF combined /\ ~combinedShortcutRegex(k) THEN Null
        ELSE LET base == NormalizePlatform(ParseBase(k, chained), mac)
             IN  [handler |-> handler, chained |-> chained, key |-> base.key,
                  ctrlKey |-> base.ctrlKey, metaKey |-> base.metaKey,
                  shiftKey |-> base.shiftKey, altKey |-> base.altKey]

---------------------------------------------------------------------------
(* parseShortcut, called on its own *)

\* the tokens spec strings are written from: the six modifier names, a
\* modifier name in another case, plain keys, the empty token, a chain
Tok_Ctrl == <<"C","t","r","l">>
ParseTokens ==
    {tok_ctrl, tok_meta, tok_command, tok_shift, tok_alt, tok_option, Tok_Ctrl,
     <<"s">>, <<"k">>, <<>>, <<"g","-","h">>}
TokenSeqs == UNION {[1..n -> ParseTokens] : n \in 1..MaxTokens}

\* every string of at most MaxSpecLen characters over two keys and the hyphen
HyphenChars == {"a", "B", "-"}
HyphenStrings == UNION {[1..n -> HyphenChars] : n \in 1..MaxSpecLen}

\* what parseShortcut is given: a list of tokens, joined by '_'
ParseInputs == TokenSeqs \cup {<<h>> : h \in HyphenStrings}

UnchangedButParse == UNCHANGED <<vueVars, hkVars, cdVars, seqVars>>

\* parseShortcut has not been called yet
Pending == [pending |-> TRUE]

\* lines 102-137: the call parseShortcut(pKey, handler, pMac)
Parse ==
    LET k == ToLowerCase(pKey)
        out == parseShortcut(pKey, 1, pMac)
    IN  /\ pOut = Pending
        /\ pOut' = out
        /\ pBase' = IF out = Null THEN Null
                    ELSE ParseBase(k, Includes(k, <<"-">>) /\ ~Includes(k, <<"_">>))
        /\ UNCHANGED <<pTokens, pKey, pMac>>
        /\ UnchangedButParse

\* no call of parseShortcut on its own
InitParse ==
    /\ pTokens = <<>>
    /\ pKey = <<>>
    /\ pMac = FALSE
    /\ pBase = Pending
    /\ pOut = Pending

\* the arguments of one call, drawn from the inputs
InitParseInputs ==
    /\ pTokens \in ParseInputs
    /\ pKey = Join(pTokens, "_")
    /\ pMac \in BOOLEAN
    /\ pBase = Pending
    /\ pOut = Pending

---------------------------------------------------------------------------
(* defineShortcuts (VueUse version): inputs *)

\* the two components of the demo page that each call defineShortcuts
Components == {"A", "B"}

\* `undefined` where a Handler is expected; handlers are numbered from 1
Undefined == 0
\* no debounce timer is pending
NoTimer == -1

\* what document.activeElement can be
el_body == [tagName |-> <<"B","O","D","Y">>, isContentEditable |-> FALSE]
el_input == [tagName |-> <<"I","N","P","U","T">>, isContentEditable |-> FALSE]
el_textarea == [tagName |-> <<"T","E","X","T","A","R","E","A">>, isContentEditable |-> FALSE]
el_editable == [tagName |-> <<"D","I","V">>, isContentEditable |-> TRUE]
tag_input == <<"i","n","p","u","t">>
tag_textarea == <<"t","e","x","t","a","r","e","a">>
Elements == {el_body, el_input, el_textarea, el_editable}

\* shortcut strings
ctrl_s == <<"c","t","r","l","_","s">>
Ctrl_S == <<"C","t","r","l","_","S">>
shift_d == <<"s","h","i","f","t","_","d">>
g_h == <<"g","-","h">>
G_H == <<"G","-","H">>
d_d == <<"d","-","d">>
bare_h == <<"h">>
escape == <<"e","s","c","a","p","e">>

\* binding configurations: a config is the list of its shortcut strings in
\* Object.entries order; the handler of the i-th string is handler i.
ConfigDemo == <<ctrl_s, shift_d, g_h, d_d>>
ConfigChainAndBare == <<g_h, bare_h, escape>>
ConfigCaseVariants == <<Ctrl_S, ctrl_s, G_H, g_h>>
Configs == {ConfigDemo, ConfigChainAndBare, ConfigCaseVariants}

\* keyboard events
NoMods == [ctrlKey |-> FALSE, metaKey |-> FALSE, shiftKey |-> FALSE, altKey |-> FALSE]
Mods == {NoMods,
         [NoMods EXCEPT !.ctrlKey = TRUE],
         [NoMods EXCEPT !.shiftKey = TRUE],
         [NoMods EXCEPT !.ctrlKey = TRUE, !.shiftKey = TRUE]}
PhysicalKeys == {<<"s">>, <<"d">>, <<"g">>, <<"h">>, <<"E","s","c","a","p","e">>}

\* the event a browser delivers: a letter arrives upper-cased while shift is held
KeyboardEvent(type, k, m) ==
    [type |-> type,
     key |-> IF m.shiftKey /\ Len(k) = 1 THEN <<UpperChar(k[1])>> ELSE k,
     ctrlKey |-> m.ctrlKey, metaKey |-> m.metaKey,
     shiftKey |-> m.shiftKey, altKey |-> m.altKey]
KeyDownEvents == {KeyboardEvent("keydown", k, m) : k \in PhysicalKeys, m \in Mods}
KeyUpEvents ==
    {KeyboardEvent("keyup", <<"s">>, m) : m \in {NoMods, [NoMods EXCEPT !.ctrlKey = TRUE]}}

\* the inputs of the chain runs
ChainConfigs == {ConfigDemo, ConfigChainAndBare, ConfigCaseVariants}
PlainKeyDownEvents ==
    {KeyboardEvent("keydown", k, NoMods) : k \in {<<"d">>, <<"g">>, <<"h">>}}

\* the inputs of the platform runs: meta and command shortcuts, and a config
\* in which three specs fail their shape check
meta_k == <<"m","e","t","a","_","k">>
meta_ctrl_k == <<"m","e","t","a","_","c","t","r","l","_","k">>
command_s == <<"c","o","m","m","a","n","d","_","s">>
lead_underscore_s == <<"_","s">>
g_trail_hyphen == <<"g","-">>
ctrl_trail_underscore == <<"c","t","r","l","_">>
ConfigMeta == <<meta_k, meta_ctrl_k, command_s>>
ConfigMalformed == <<lead_underscore_s, ctrl_s, g_trail_hyphen, g_h, ctrl_trail_underscore>>
PlatformConfigs == {ConfigMeta, ConfigMalformed}
PlatformMods == {NoMods,
                 [NoMods EXCEPT !.ctrlKey = TRUE],
                 [NoMods EXCEPT !.metaKey = TRUE],
                 [NoMods EXCEPT !.ctrlKey = TRUE, !.metaKey = TRUE]}
PlatformKeyDownEvents ==
    {KeyboardEvent("keydown", k, m) :
        k \in {<<"k">>, <<"s">>, <<"g">>, <<"h">>}, m \in PlatformMods}

\* the inputs of the push runs: a chain whose second key has a name of more
\* than one character, keys that begin a segment, and a key, x, of no chain
g_escape == <<"g","-","e","s","c","a","p","e">>
ctrl_x == <<"c","t","r","l","_","x">>
ConfigNamedChain == <<g_escape, g_h, ctrl_x>>
PushKeyDownEvents ==
    {KeyboardEvent("keydown", k, m) :
        k \in {<<"g">>, <<"h">>, <<"e">>, <<"x">>, <<"E","s","c","a","p","e">>},
        m \in {NoMods, [NoMods EXCEPT !.ctrlKey = TRUE]}}

\* the inputs of the two-component runs
ConfigDebug == <<shift_d>>
PageConfigs == {ConfigDemo, ConfigDebug}
PageKeyDownEvents ==
    {KeyboardEvent("keydown", k, m) :
        k \in {<<"d">>, <<"g">>, <<"h">>},
        m \in {NoMods, [NoMods EXCEPT !.shiftKey = TRUE]}}

---------------------------------------------------------------------------
(* defineShortcuts (VueUse version): the binding *)

\* lines 153-158
isTypingIgnoresOption(c) ==
    LET tag == ToLowerCase(focus.tagName)
    IN  tag = tag_input \/ tag = tag_textarea \/ focus.isContentEditable
isTypingInputOnly(c) ==
    IF ~disableOnInputs[c] THEN FALSE
    ELSE ToLowerCase(focus.tagName) = tag_input
isTyping(c) ==
    IF ~disableOnInputs[c] THEN FALSE
    ELSE LET tag == ToLowerCase(focus.tagName)
         IN  tag = tag_input \/ tag = tag_textarea \/ focus.isContentEditable

\* lines 160-163: the reduce over Object.entries(configValue)
RECURSIVE ParseEntriesStopAtNull(_, _, _)
ParseEntriesStopAtNull(cfg, i, mac) ==
    IF i > Len(cfg) THEN <<>>
    ELSE LET s == parseShortcut(cfg[i], i, mac)
         IN  IF s = Null THEN <<>>
             ELSE <<s>> \o ParseEntriesStopAtNull(cfg, i + 1, mac)
RECURSIVE ParseEntries(_, _, _)
ParseEntries(cfg, i, mac) ==
    IF i > Len(cfg) THEN <<>>
    ELSE LET s == parseShortcut(cfg[i], i, mac)
         IN  (IF s = Null THEN <<>> ELSE <<s>>) \o ParseEntries(cfg, i + 1, mac)

\* Array.prototype.find over the binding's shortcuts: the first index that
\* satisfies the test, 0 if none
FirstChained(shs, pattern) ==
    LET hits == {i \in 1..Len(shs) : shs[i].chained /\ shs[i].key = pattern}
    IN  IF hits = {} THEN 0 ELSE CHOOSE i \in hits : \A j \in hits : i <= j

\* lines 171-174
matchChainedFirstToken(shs, hist, key) ==
    IF Len(hist) > 0
    THEN LET i == FirstChained(shs, hist[1] \o <<"-">> \o key)
         IN  IF i = 0 THEN Undefined ELSE shs[i].handler
    ELSE Undefined
matchChained(shs, hist, key) ==
    IF Len(hist) > 0
    THEN LET i == FirstChained(shs, hist[Len(hist)] \o <<"-">> \o key)
         IN  IF i = 0 THEN Undefined ELSE shs[i].handler
    ELSE Undefined

\* lines 178-184: the predicate of matchCombined's find
CombinedTestSubset(s, e) ==
    /\ ~s.chained
    /\ s.key = ToLowerCase(e.key)
    /\ (s.ctrlKey => e.ctrlKey)
    /\ (s.metaKey => e.metaKey)
    /\ (s.shiftKey => e.shiftKey)
    /\ (s.altKey => e.altKey)
CombinedTest(s, e) ==
    /\ ~s.chained
    /\ s.key = ToLowerCase(e.key)
    /\ s.ctrlKey = e.ctrlKey
    /\ s.metaKey = e.metaKey
    /\ s.shiftKey = e.shiftKey
    /\ s.altKey = e.altKey

\* lines 176-185
matchCombinedLast(shs, e) ==
    LET hits == {i \in 1..Len(shs) : CombinedTest(shs[i], e)}
    IN  IF hits = {} THEN Undefined
        ELSE shs[CHOOSE i \in hits : \A j \in hits : i >= j].handler
matchCombined(shs, e) ==
    LET hits == {i \in 1..Len(shs) : CombinedTest(shs[i], e)}
    IN  IF hits = {} THEN Undefined
        ELSE shs[CHOOSE i \in hits : \A j \in hits : i <= j].handler

\* line 197
SkipsCombinedStartsWith(shs, key) ==
    \E i \in 1..Len(shs) : shs[i].chained /\ StartsWith(shs[i].key, key)
SkipsCombined(shs, key) ==
    \E i \in 1..Len(shs) : shs[i].chained /\ Includes(shs[i].key, key)

\* line 231
ParticipatesAlways(shs, key) == TRUE
ParticipatesInChain(shs, key) ==
    \E i \in 1..Len(shs) :
        /\ shs[i].chained
        /\ (StartsWith(shs[i].key, key) \/ Includes(shs[i].key, <<"-">> \o key))

\* The state one event's dispatch works on: every binding's history and
\* timer, and what the event has caused so far.
DispatchState ==
    [history |-> history, timer |-> timer, invoked |-> <<>>, prevented |-> FALSE,
     seen |-> <<>>]

\* lines 203-206: e.preventDefault(), then handler(e), then resetHistory()
CallHandlerKeepsHistory(c, handler, st) ==
    LET defaultPrevented == [st EXCEPT !.prevented = TRUE]
    IN  [defaultPrevented EXCEPT
           !.invoked = Append(@, [component |-> c, handler |-> handler]),
           !.seen = Append(@, defaultPrevented.prevented)]
CallHandlerFirst(c, handler, st) ==
    LET called == [st EXCEPT
                     !.invoked = Append(@, [component |-> c, handler |-> handler]),
                     !.seen = Append(@, st.prevented)]
    IN  [called EXCEPT !.prevented = TRUE, !.history[c] = <<>>]
CallHandler(c, handler, st) ==
    LET defaultPrevented == [st EXCEPT !.prevented = TRUE]
        called == [defaultPrevented EXCEPT
                     !.invoked = Append(@, [component |-> c, handler |-> handler]),
                     !.seen = Append(@, defaultPrevented.prevented)]
    IN  [called EXCEPT !.history[c] = <<>>]

\* lines 190-208: the onEventFired callback given to useMagicKeys
onEventFired(c, e, st) ==
    IF isTyping(c) \/ e.type # "keydown" THEN st
    ELSE LET key == ToLowerCase(e.key)
         IN  IF SkipsCombined(shortcuts[c], key) THEN st
             ELSE LET combinedHandler == matchCombined(shortcuts[c], e)
                  IN  IF combinedHandler = Undefined THEN st
                      ELSE CallHandler(c, combinedHandler, st)

\* lines 211-238
onKeyDownNoGuard(c, e, st) ==
    IF Len(e.key) = 0 THEN st
    ELSE LET key == ToLowerCase(e.key)
             chainedHandler == matchChained(shortcuts[c], st.history[c], key)
         IN  IF chainedHandler # Undefined
             THEN CallHandler(c, chainedHandler, st)
             ELSE IF ParticipatesInChain(shortcuts[c], key)
             THEN [st EXCEPT
                     !.history[c] = Append(@, key),
                     !.timer[c] = chainDelay]
             ELSE st
onKeyDownNoRestart(c, e, st) ==
    IF Len(e.key) = 0 THEN st
    ELSE IF isTyping(c) THEN st
    ELSE LET key == ToLowerCase(e.key)
             chainedHandler == matchChained(shortcuts[c], st.history[c], key)
         IN  IF chainedHandler # Undefined
             THEN CallHandler(c, chainedHandler, st)
             ELSE IF ParticipatesInChain(shortcuts[c], key)
             THEN [st EXCEPT
                     !.history[c] = Append(@, key),
                     !.timer[c] = IF @ = NoTimer THEN chainDelay ELSE @]
             ELSE st
onKeyDownNoDebounce(c, e, st) ==
    IF Len(e.key) = 0 THEN st
    ELSE IF isTyping(c) THEN st
    ELSE LET key == ToLowerCase(e.key)
             chainedHandler == matchChained(shortcuts[c], st.history[c], key)
         IN  IF chainedHandler # Undefined
             THEN CallHandler(c, chainedHandler, st)
             ELSE IF ParticipatesInChain(shortcuts[c], key)
             THEN [st EXCEPT !.history[c] = Append(@, key)]
             ELSE st
onKeyDown(c, e, st) ==
    IF Len(e.key) = 0 THEN st
    ELSE IF isTyping(c) THEN st
    ELSE LET key == ToLowerCase(e.key)
             chainedHandler == matchChained(shortcuts[c], st.history[c], key)
         IN  IF chainedHandler # Undefined
             THEN CallHandler(c, chainedHandler, st)
             ELSE IF ParticipatesInChain(shortcuts[c], key)
             THEN [st EXCEPT
                     !.history[c] = Append(@, key),
                     !.timer[c] = chainDelay]
             ELSE st

\* window's listeners run in registration order
RECURSIVE Dispatch(_, _, _)
Dispatch(ls, e, st) ==
    IF Len(ls) = 0 THEN st
    ELSE LET l == ls[1]
             next == IF l.kind = "magic" THEN onEventFired(l.component, e, st)
                     ELSE IF e.type = "keydown" THEN onKeyDown(l.component, e, st)
                     ELSE st
         IN  Dispatch(Tail(ls), e, next)

MagicListener(c) == [component |-> c, kind |-> "magic"]
KeyDownListener(c) == [component |-> c, kind |-> "keydown"]
HasListener(l) == \E i \in 1..Len(listeners) : listeners[i] = l

RECURSIVE Without(_, _)
Without(ls, l) ==
    IF Len(ls) = 0 THEN <<>>
    ELSE (IF ls[1] = l THEN <<>> ELSE <<ls[1]>>) \o Without(Tail(ls), l)

---------------------------------------------------------------------------
(* ShortcutRegistry *)

RegistryIndex(reg, shortcut) ==
    IF \E i \in 1..Len(reg) : reg[i].shortcut = shortcut
    THEN CHOOSE i \in 1..Len(reg) : reg[i].shortcut = shortcut
    ELSE 0

\* lines 20-31: ShortcutRegistry.register, on the pair (Map, printed warnings)
RegistryRegister(r, shortcut, handler, componentName) ==
    LET i == RegistryIndex(r.registered, shortcut)
        entry == [shortcut |-> shortcut, component |-> componentName, handler |-> handler]
    IN  IF i # 0
        THEN [registered |-> [r.registered EXCEPT ![i] = entry],
              warnings |-> Append(r.warnings,
                                  [shortcut |-> shortcut,
                                   existing |-> r.registered[i].component,
                                   attempted |-> componentName])]
        ELSE [registered |-> Append(r.registered, entry), warnings |-> r.warnings]

\* lines 82-87
RECURSIVE checkForDuplicates(_, _, _, _)
checkForDuplicates(cfg, i, componentName, r) ==
    IF i > Len(cfg) THEN r
    ELSE checkForDuplicates(cfg, i + 1, componentName,
                            RegistryRegister(r, cfg[i], i, componentName))

---------------------------------------------------------------------------
(* hotkeys-js, as createScopedHotkeys uses it *)

\* the two scoped managers of the hotkeys demo page
Managers == {"editor", "viewer"}
HotkeyKeys == {"ctrl+b", "j"}
\* where a key event hotkeys-js sees can come from
HotkeyTargets == {el_body, el_input}

NoHotkeyEvent == [type |-> "none"]
HotkeyEvent(key, target) == [type |-> "keydown", key |-> key, target |-> target]

\* the handler function a manager passes for a key
ScopedHandler(m, key) == [owner |-> m, key |-> key]

\* hotkeys(key, {scope}, handler): one more entry in the handler table
HotkeysBind(handlers, key, scope, method) ==
    Append(handlers, [key |-> key, scope |-> scope, method |-> method])

\* hotkeys.unbind(key, scope): drops every handler of that key in that scope
RECURSIVE HotkeysUnbind(_, _, _)
HotkeysUnbind(handlers, key, scope) ==
    IF Len(handlers) = 0 THEN <<>>
    ELSE (IF handlers[1].key = key /\ handlers[1].scope = scope
          THEN <<>> ELSE <<handlers[1]>>)
             \o HotkeysUnbind(Tail(handlers), key, scope)

\* hotkeys.deleteScope(scope): drops every handler of that scope
RECURSIVE HotkeysDeleteScope(_, _)
HotkeysDeleteScope(handlers, scope) ==
    IF Len(handlers) = 0 THEN <<>>
    ELSE (IF handlers[1].scope = scope THEN <<>> ELSE <<handlers[1]>>)
             \o HotkeysDeleteScope(Tail(handlers), scope)

\* hotkeys-js's default filter: no shortcut while a text-entry element is the target
HotkeysDefaultFilter(event) ==
    LET tag == event.target.tagName
    IN  ~(event.target.isContentEditable
          \/ tag = el_input.tagName \/ tag = el_textarea.tagName)

\* hotkeys-js's dispatch: the handlers of the key whose scope is the current
\* scope or 'all', in binding order
RECURSIVE HotkeysDispatch(_, _, _)
HotkeysDispatch(handlers, key, scope) ==
    IF Len(handlers) = 0 THEN <<>>
    ELSE (IF handlers[1].key = key /\ (handlers[1].scope = scope \/ handlers[1].scope = "all")
          THEN <<handlers[1].method>> ELSE <<>>)
             \o HotkeysDispatch(Tail(handlers), key, scope)

\* the filter functions a caller passes as options.filter: none, or the demo
\* page's, which lets an event through unless its target is inside an
\* element of class no-shortcuts
NoFilter == "none"
FilterFns == {"notInNoShortcuts"}
el_no_shortcuts ==
    [tagName |-> <<"D","I","V">>, isContentEditable |-> FALSE, noShortcuts |-> TRUE]
ClosestNoShortcuts(target) ==
    IF "noShortcuts" \in DOMAIN target THEN target.noShortcuts ELSE FALSE
FilterFn(f, event) == ~ClosestNoShortcuts(event.target)

\* what hotkeys.filter can be: the library's default, the closure of lines
\* 287-298 (over the binding's filter option), or the filter option itself
\* (line 301)
DefaultFilter == [kind |-> "default", filter |-> NoFilter]
GuardFilter(f) == [kind |-> "guard", filter |-> f]
CustomFilter(f) == [kind |-> "custom", filter |-> f]

\* lines 287-298
GuardFilterTest(f, event) ==
    LET tagName == event.target.tagName
        isInput == \/ tagName = el_input.tagName
                   \/ tagName = el_textarea.tagName
                   \/ event.target.isContentEditable
    IN  IF f # NoFilter THEN ~isInput /\ FilterFn(f, event) ELSE ~isInput

\* hotkeys.filter(event), for the function that is installed
HotkeysFilter(flt, event) ==
    IF flt.kind = "default" THEN HotkeysDefaultFilter(event)
    ELSE IF flt.kind = "guard" THEN GuardFilterTest(flt.filter, event)
    ELSE FilterFn(flt.filter, event)

RECURSIVE UnbindEach(_, _, _)
UnbindEach(handlers, keys, scope) ==
    IF keys = {} THEN handlers
    ELSE LET k == CHOOSE x \in keys : TRUE
         IN  UnbindEach(HotkeysUnbind(handlers, k, scope), keys \ {k}, scope)

UnchangedButHotkeys == UNCHANGED <<vueVars, cdVars, parseVars, seqVars>>

\* lines 418-421
ScopedBindNoScope(m, key) ==
    /\ Len(hkHandlers) < MaxHandlers
    /\ hkHandlers' = HotkeysBind(hkHandlers, key, "all", ScopedHandler(m, key))
    /\ scoped' = [scoped EXCEPT ![m] = @ \cup {key}]
    /\ hkEv' = NoHotkeyEvent
    /\ hkInvoked' = <<>>
    /\ UNCHANGED <<hkScope, hkFilter, hotkeyBindings, hbDetached>>
    /\ UnchangedButHotkeys
ScopedBind(m, key) ==
    /\ Len(hkHandlers) < MaxHandlers
    /\ hkHandlers' = HotkeysBind(hkHandlers, key, m, ScopedHandler(m, key))
    /\ scoped' = [scoped EXCEPT ![m] = @ \cup {key}]
    /\ hkEv' = NoHotkeyEvent
    /\ hkInvoked' = <<>>
    /\ UNCHANGED <<hkScope, hkFilter, hotkeyBindings, hbDetached>>
    /\ UnchangedButHotkeys

\* lines 423-426
ScopedUnbind(m, key) ==
    /\ hkHandlers' = HotkeysUnbind(hkHandlers, key, m)
    /\ scoped' = [scoped EXCEPT ![m] = @ \ {key}]
    /\ hkEv' = NoHotkeyEvent
    /\ hkInvoked' = <<>>
    /\ UNCHANGED <<hkScope, hkFilter, hotkeyBindings, hbDetached>>
    /\ UnchangedButHotkeys

\* lines 428-430
ScopedActivate(m) ==
    /\ hkScope' = m
    /\ hkEv' = NoHotkeyEvent
    /\ hkInvoked' = <<>>
    /\ UNCHANGED <<hkHandlers, scoped, hkFilter, hotkeyBindings, hbDetached>>
    /\ UnchangedButHotkeys

\* lines 432-434
ScopedDeactivate(m) ==
    /\ hkScope' = "all"
    /\ hkEv' = NoHotkeyEvent
    /\ hkInvoked' = <<>>
    /\ UNCHANGED <<hkHandlers, scoped, hkFilter, hotkeyBindings, hbDetached>>
    /\ UnchangedButHotkeys

\* lines 436-442; deleteScope falls back to 'all' when it deletes the current scope
ScopedDestroy(m) ==
    /\ hkHandlers' = HotkeysDeleteScope(UnbindEach(hkHandlers, scoped[m], m), m)
    /\ scoped' = [scoped EXCEPT ![m] = {}]
    /\ hkScope' = IF hkScope = m THEN "all" ELSE hkScope
    /\ hkEv' = NoHotkeyEvent
    /\ hkInvoked' = <<>>
    /\ UNCHANGED <<hkFilter, hotkeyBindings, hbDetached>>
    /\ UnchangedButHotkeys

\* a keydown reaches hotkeys-js
HotkeyDown(key, target) ==
    /\ hkEv' = HotkeyEvent(key, target)
    /\ hkInvoked' = IF HotkeysFilter(hkFilter, HotkeyEvent(key, target))
                    THEN HotkeysDispatch(hkHandlers, key, hkScope)
                    ELSE <<>>
    /\ UNCHANGED <<hkScope, hkHandlers, scoped, hkFilter, hotkeyBindings, hbDetached>>
    /\ UnchangedButHotkeys

---------------------------------------------------------------------------
(* defineShortcuts (hotkeys-js version), lines 267-390 *)

\* the components that call the hotkeys-js defineShortcuts
HotkeyBindings == {"P", "Q"}
\* their configs, as the keys in Object.entries order
HotkeyConfigs == {<<"ctrl+b">>, <<"ctrl+b", "j">>}
\* the scope option, and the scopes changeScope is called with
ScopeOptions == {"all", "demo"}
NewScopes == {"demo", "editor"}
BindingTargets == {el_body, el_input, el_no_shortcuts}

\* the handler function a binding's config holds for a key
ConfigHandler(b, key) == [owner |-> b, key |-> key]

\* a component that has not called defineShortcuts
NoBinding ==
    [defined |-> FALSE, mounted |-> FALSE, config |-> <<>>, disableOnInputs |-> TRUE,
     filter |-> NoFilter, currentScope |-> "all", boundKeys |-> {}]

\* lines 281-306: setupHotkeys leaves hotkeys.filter as
setupHotkeys(bd, flt) ==
    IF bd.disableOnInputs THEN GuardFilter(bd.filter)
    ELSE IF bd.filter # NoFilter THEN CustomFilter(bd.filter)
    ELSE flt

\* lines 308-313: unbindAll, on hotkeys' handler table
unbindAll(bd, handlers) == UnbindEach(handlers, bd.boundKeys, bd.currentScope)

\* lines 320-323: hotkeys(key, { scope: currentScope }, handler) per entry
RECURSIVE BindEach(_, _, _, _, _)
BindEach(handlers, b, cfg, i, scope) ==
    IF i > Len(cfg) THEN handlers
    ELSE BindEach(HotkeysBind(handlers, cfg[i], scope, ConfigHandler(b, cfg[i])),
                  b, cfg, i + 1, scope)

\* lines 315-324: bindShortcuts(config), on hotkeys' handler table
bindShortcuts(b, bd, handlers) ==
    BindEach(unbindAll(bd, handlers), b, bd.config, 1, bd.currentScope)

KeysOf(cfg) == {cfg[i] : i \in 1..Len(cfg)}

UnchangedScoped == UNCHANGED scoped

\* lines 267-279, 354-371: the call defineShortcuts(shortcuts, options)
HkDefine(b, cfg, scope, dis, f) ==
    /\ ~hotkeyBindings[b].defined
    /\ hotkeyBindings' = [hotkeyBindings EXCEPT ![b] =
            [defined |-> TRUE, mounted |-> FALSE, config |-> cfg,
             disableOnInputs |-> dis, filter |-> f, currentScope |-> scope,
             boundKeys |-> {}]]
    /\ hkEv' = [type |-> "define", owner |-> b]
    /\ hkInvoked' = <<>>
    /\ UNCHANGED <<hkScope, hkHandlers, hkFilter, hbDetached>>
    /\ UnchangedScoped
    /\ UnchangedButHotkeys

\* lines 354-357: onMounted runs setupHotkeys() and bindShortcuts(config)
HkMount(b) ==
    LET bd == hotkeyBindings[b]
        bound == bindShortcuts(b, bd, hkHandlers)
    IN  /\ bd.defined /\ ~bd.mounted
        /\ Len(bound) <= MaxHandlers
        /\ hkScope' = bd.currentScope
        /\ hkFilter' = setupHotkeys(bd, hkFilter)
        /\ hkHandlers' = bound
        /\ hotkeyBindings' = [hotkeyBindings EXCEPT
                                ![b].mounted = TRUE,
                                ![b].boundKeys = KeysOf(bd.config)]
        /\ hbDetached' = [hbDetached EXCEPT ![b] = FALSE]
        /\ hkEv' = [type |-> "mount", owner |-> b]
        /\ hkInvoked' = <<>>
        /\ UnchangedScoped
        /\ UnchangedButHotkeys

\* lines 308-313: the caller calls unbindAll()
HkUnbindAllNoClear(b) ==
    LET bd == hotkeyBindings[b]
    IN  /\ bd.mounted
        /\ hkHandlers' = unbindAll(bd, hkHandlers)
        /\ hbDetached' = [hbDetached EXCEPT ![b] = TRUE]
        /\ hkEv' = [type |-> "unbindAll", owner |-> b, again |-> hbDetached[b]]
        /\ hkInvoked' = <<>>
        /\ UNCHANGED <<hkScope, hkFilter, hotkeyBindings>>
        /\ UnchangedScoped
        /\ UnchangedButHotkeys
HkUnbindAll(b) ==
    LET bd == hotkeyBindings[b]
    IN  /\ bd.mounted
        /\ hkHandlers' = unbindAll(bd, hkHandlers)
        /\ hotkeyBindings' = [hotkeyBindings EXCEPT ![b].boundKeys = {}]
        /\ hbDetached' = [hbDetached EXCEPT ![b] = TRUE]
        /\ hkEv' = [type |-> "unbindAll", owner |-> b, again |-> hbDetached[b]]
        /\ hkInvoked' = <<>>
        /\ UNCHANGED <<hkScope, hkFilter>>
        /\ UnchangedScoped
        /\ UnchangedButHotkeys

\* lines 360-366: the shortcuts ref changes and the watch callback runs
\* bindShortcuts(newShortcuts)
HkRebind(b, cfg) ==
    LET bd == [hotkeyBindings[b] EXCEPT !.config = cfg]
        bound == bindShortcuts(b, bd, hkHandlers)
    IN  /\ hotkeyBindings[b].defined
        /\ cfg # hotkeyBindings[b].config
        /\ Len(bound) <= MaxHandlers
        /\ hkHandlers' = bound
        /\ hotkeyBindings' = [hotkeyBindings EXCEPT
                                ![b].config = cfg,
                                ![b].boundKeys = KeysOf(cfg)]
        /\ hbDetached' = [hbDetached EXCEPT ![b] = FALSE]
        /\ hkEv' = [type |-> "rebind", owner |-> b]
        /\ hkInvoked' = <<>>
        /\ UNCHANGED <<hkScope, hkFilter>>
        /\ UnchangedScoped
        /\ UnchangedButHotkeys

\* lines 326-331: the caller calls changeScope(newScope)
HkChangeScope(b, newScope) ==
    LET bd == [hotkeyBindings[b] EXCEPT !.currentScope = newScope]
        bound == bindShortcuts(b, bd, hkHandlers)
    IN  /\ hotkeyBindings[b].mounted
        /\ Len(bound) <= MaxHandlers
        /\ hkScope' = newScope
        /\ hkHandlers' = bound
        /\ hotkeyBindings' = [hotkeyBindings EXCEPT
                                ![b].currentScope = newScope,
                                ![b].boundKeys = KeysOf(bd.config)]
        /\ hbDetached' = [hbDetached EXCEPT ![b] = FALSE]
        /\ hkEv' = [type |-> "changeScope", owner |-> b]
        /\ hkInvoked' = <<>>
        /\ UNCHANGED hkFilter
        /\ UnchangedScoped
        /\ UnchangedButHotkeys

InitHotkeys ==
    /\ hkScope = "all"
    /\ hkHandlers = <<>>
    /\ scoped = [m \in Managers |-> {}]
    /\ hkEv = NoHotkeyEvent
    /\ hkInvoked = <<>>
    /\ hkFilter = DefaultFilter
    /\ hotkeyBindings = [b \in HotkeyBindings |-> NoBinding]
    /\ hbDetached = [b \in HotkeyBindings |-> FALSE]

---------------------------------------------------------------------------
(* createHotkeyConflictDetector *)

DetectorKeys == {"ctrl+s", "ctrl+k"}
DetectorScopes == {"demo", "editor"}
DetectorOwners == {"HotkeysDemo", "EditorScope"}

DetectorIndex(reg, key) ==
    IF \E i \in 1..Len(reg) : reg[i].key = key
    THEN CHOOSE i \in 1..Len(reg) : reg[i].key = key
    ELSE 0

\* line 552: registeredKeys.set(key, { scope, component })
MapSet(reg, key, scope, component) ==
    LET i == DetectorIndex(reg, key)
        entry == [key |-> key, scope |-> scope, component |-> component]
    IN  IF i # 0 THEN [reg EXCEPT ![i] = entry] ELSE Append(reg, entry)

\* line 556: registeredKeys.delete(key)
RECURSIVE MapDelete(_, _)
MapDelete(reg, key) ==
    IF Len(reg) = 0 THEN <<>>
    ELSE (IF reg[1].key = key THEN <<>> ELSE <<reg[1]>>) \o MapDelete(Tail(reg), key)

\* line 549: whether register prints the conflict warning
DetectorWarns(reg, key, scope) ==
    LET i == DetectorIndex(reg, key)
    IN  i # 0 /\ reg[i].scope = scope

\* lines 561-568: keyGroups, one list of {scope, component} per key of the Map
RECURSIVE KeyGroup(_, _)
KeyGroup(reg, key) ==
    IF Len(reg) = 0 THEN <<>>
    ELSE (IF reg[1].key = key
          THEN <<[scope |-> reg[1].scope, component |-> reg[1].component]>>
          ELSE <<>>) \o KeyGroup(Tail(reg), key)

\* lines 559-577: the conflicts object, as a function from its keys
getConflicts(reg) ==
    LET keys == {reg[i].key : i \in 1..Len(reg)}
        conflicting == {k \in keys : Len(KeyGroup(reg, k)) > 1}
    IN  [k \in conflicting |-> KeyGroup(reg, k)]

UnchangedButDetector == UNCHANGED <<vueVars, hkVars, parseVars, seqVars>>

\* lines 547-553
DetectorRegister(key, scope, component) ==
    /\ Len(cdCalls) < MaxDetectorCalls
    /\ registeredKeys' = MapSet(registeredKeys, key, scope, component)
    /\ cdCalls' = Append(cdCalls,
                         [op |-> "register", key |-> key, scope |-> scope,
                          component |-> component,
                          warned |-> DetectorWarns(registeredKeys, key, scope)])
    /\ UnchangedButDetector

\* lines 555-557
DetectorUnregister(key) ==
    /\ Len(cdCalls) < MaxDetectorCalls
    /\ registeredKeys' = MapDelete(registeredKeys, key)
    /\ cdCalls' = Append(cdCalls, [op |-> "unregister", key |-> key])
    /\ UnchangedButDetector

InitDetector ==
    /\ registeredKeys = <<>>
    /\ cdCalls = <<>>

---------------------------------------------------------------------------
(* createKeySequenceDetector, lines 458-508 *)

\* the first elements of the two sequences the page creates detectors for,
\* and the keys pressed, as event.key reports them
SeqHelp == << <<"h">>, <<"e">> >>
SeqKonami == << <<"a","r","r","o","w","u","p">>, <<"a","r","r","o","w","u","p">>,
               <<"a","r","r","o","w","d","o","w","n">> >>
Sequences == {SeqHelp, SeqKonami}
SeqKeys == {<<"h">>, <<"E">>, <<"A","r","r","o","w","U","p">>,
            <<"A","r","r","o","w","D","o","w","n">>}

NoSeqEvent == [type |-> "none"]
UnchangedButSequence == UNCHANGED <<vueVars, hkVars, cdVars, parseVars>>

\* lines 467-473: what resetSequence leaves in currentIndex and timer
resetSequenceKeepsTimer(st) == [st EXCEPT !.currentIndex = 0]
resetSequence(st) == [st EXCEPT !.currentIndex = 0, !.timer = NoTimer]

\* lines 475-496: handler, on currentIndex, timer and the callback's calls
handlerRecounts(key, st) ==
    IF st.currentIndex < Len(sequence) /\ key = sequence[st.currentIndex + 1]
    THEN LET advanced == [st EXCEPT !.currentIndex = @ + 1]
         IN  IF advanced.currentIndex = Len(sequence)
             THEN LET called == [advanced EXCEPT !.called = @ + 1]
                  IN  IF resetOption THEN resetSequence(called) ELSE called
             ELSE [advanced EXCEPT !.timer = timeout]
    ELSE IF key = sequence[1]
    THEN [st EXCEPT !.currentIndex = 1, !.timer = timeout]
    ELSE resetSequence(st)
handler(key, st) ==
    IF st.currentIndex < Len(sequence) /\ key = sequence[st.currentIndex + 1]
    THEN LET advanced == [st EXCEPT !.currentIndex = @ + 1]
         IN  IF advanced.currentIndex = Len(sequence)
             THEN LET called == [advanced EXCEPT !.called = @ + 1]
                  IN  IF resetOption THEN resetSequence(called) ELSE called
             ELSE [advanced EXCEPT !.timer = timeout]
    ELSE resetSequence(st)

SeqState == [currentIndex |-> currentIndex, timer |-> seqTimer, called |-> 0]

\* lines 458-499: createKeySequenceDetector(seq, callback, { timeout, reset })
SeqCreate(seq, rst) ==
    /\ sequence = <<>>
    /\ sequence' = seq
    /\ resetOption' = rst
    /\ currentIndex' = 0
    /\ seqTimer' = NoTimer
    /\ seqListening' = TRUE
    /\ seqEv' = [type |-> "create"]
    /\ seqCalled' = 0
    /\ UNCHANGED <<seqLog, seqGap>>
    /\ UnchangedButSequence

\* the browser delivers a keydown to document's listeners
SeqKeyDown(k) ==
    LET st == IF seqListening THEN handler(ToLowerCase(k), SeqState) ELSE SeqState
    IN  /\ sequence # <<>>
        /\ Len(seqLog) < MaxSeqEvents
        /\ currentIndex' = st.currentIndex
        /\ seqTimer' = st.timer
        /\ seqCalled' = st.called
        /\ seqEv' = [type |-> "keydown", key |-> k]
        /\ seqLog' = Append(seqLog, [type |-> "keydown", key |-> k])
        /\ seqGap' = 0
        /\ UNCHANGED <<sequence, resetOption, seqListening>>
        /\ UnchangedButSequence

\* one time unit passes; a timer that is due fires before time moves on
SeqTick ==
    /\ seqTimer > 0
    /\ seqTimer' = seqTimer - 1
    /\ seqGap' = IF seqGap < timeout THEN seqGap + 1 ELSE seqGap
    /\ seqEv' = NoSeqEvent
    /\ seqCalled' = 0
    /\ UNCHANGED <<sequence, resetOption, currentIndex, seqListening, seqLog>>
    /\ UnchangedButSequence

\* line 491: the timeout fires and runs resetSequence
SeqTimeout ==
    LET st == resetSequence(SeqState)
    IN  /\ seqTimer = 0
        /\ Len(seqLog) < MaxSeqEvents
        /\ currentIndex' = st.currentIndex
        /\ seqTimer' = st.timer
        /\ seqCalled' = 0
        /\ seqEv' = [type |-> "timeout"]
        /\ seqLog' = Append(seqLog, [type |-> "timeout"])
        /\ UNCHANGED <<sequence, resetOption, seqListening, seqGap>>
        /\ UnchangedButSequence

\* line 506: the caller calls reset()
SeqReset ==
    LET st == resetSequence(SeqState)
    IN  /\ sequence # <<>>
        /\ Len(seqLog) < MaxSeqEvents
        /\ currentIndex' = st.currentIndex
        /\ seqTimer' = st.timer
        /\ seqCalled' = 0
        /\ seqEv' = [type |-> "reset"]
        /\ seqLog' = Append(seqLog, [type |-> "reset"])
        /\ UNCHANGED <<sequence, resetOption, seqListening, seqGap>>
        /\ UnchangedButSequence

\* lines 502-505: the caller calls destroy()
SeqDestroyKeepsTimer ==
    /\ sequence # <<>>
    /\ Len(seqLog) < MaxSeqEvents
    /\ seqListening' = FALSE
    /\ seqCalled' = 0
    /\ seqEv' = [type |-> "destroy", again |-> ~seqListening]
    /\ seqLog' = Append(seqLog, [type |-> "destroy"])
    /\ UNCHANGED <<sequence, resetOption, currentIndex, seqTimer, seqGap>>
    /\ UnchangedButSequence
SeqDestroy ==
    LET st == resetSequence(SeqState)
    IN  /\ sequence # <<>>
        /\ Len(seqLog) < MaxSeqEvents
        /\ seqListening' = FALSE
        /\ currentIndex' = st.currentIndex
        /\ seqTimer' = st.timer
        /\ seqCalled' = 0
        /\ seqEv' = [type |-> "destroy", again |-> ~seqListening]
        /\ seqLog' = Append(seqLog, [type |-> "destroy"])
        /\ UNCHANGED <<sequence, resetOption, seqGap>>
        /\ UnchangedButSequence

InitSequence ==
    /\ sequence = <<>>
    /\ resetOption = TRUE
    /\ currentIndex = 0
    /\ seqTimer = NoTimer
    /\ seqListening = FALSE
    /\ seqEv = NoSeqEvent
    /\ seqCalled = 0
    /\ seqLog = <<>>
    /\ seqGap = 0

---------------------------------------------------------------------------
(* defineShortcuts (VueUse version): operations *)

NoEvent == [type |-> "none"]
NoPrev == [key |-> <<>>, fresh |-> {}]
Min(a, b) == IF a < b THEN a ELSE b

Defined(c) == c \in defined
\* line 233: this event's dispatch pushed a token onto c's history
Pushed(c, before, after) == Len(after[c]) = Len(before[c]) + 1
Attached(c) == HasListener(MagicListener(c)) /\ HasListener(KeyDownListener(c))

UnchangedOthers == UNCHANGED <<macOS, monitoring, hkVars, cdVars, parseVars, seqVars>>

\* lines 139-241: one component calls defineShortcuts(config, options); mac is
\* what line 149 reads from navigator.userAgent, which is the page's macOS
DefineShortcuts(c, cfg, opt, mac) ==
    /\ ~Defined(c)
    /\ LET r == checkForDuplicates(cfg, 1, c,
                    [registered |-> registered, warnings |-> warnings])
       IN  /\ registered' = r.registered
           /\ warnings' = r.warnings
    /\ defined' = defined \cup {c}
    /\ disableOnInputs' = [disableOnInputs EXCEPT ![c] = opt]
    /\ config' = [config EXCEPT ![c] = cfg]
    /\ shortcuts' = [shortcuts EXCEPT ![c] = ParseEntries(cfg, 1, mac)]
    /\ history' = [history EXCEPT ![c] = <<>>]
    /\ timer' = [timer EXCEPT ![c] = NoTimer]
    /\ listeners' = listeners \o <<MagicListener(c), KeyDownListener(c)>>
    /\ ev' = NoEvent
    /\ invoked' = <<>>
    /\ prevented' = FALSE
    /\ seen' = <<>>
    /\ UNCHANGED <<focus, prev, since, sincePush>>
    /\ UnchangedOthers

\* the browser delivers a keydown to window's listeners
KeyDown(e) ==
    /\ LET st == Dispatch(listeners, e, DispatchState)
       IN  /\ \A c \in Components : Len(st.history[c]) <= MaxHistory
           /\ history' = st.history
           /\ timer' = st.timer
           /\ invoked' = st.invoked
           /\ prevented' = st.prevented
           /\ seen' = st.seen
    /\ ev' = e
    /\ prev' = IF monitoring
                THEN [key |-> ToLowerCase(e.key),
                      fresh |-> {c \in Components :
                                   Attached(c) /\ ~isTyping(c) /\ history[c] = <<>>}]
                ELSE prev
    /\ since' = 0
    /\ sincePush' = IF monitoring
                     THEN [c \in Components |->
                             IF Pushed(c, history, Dispatch(listeners, e, DispatchState).history)
                             THEN 0 ELSE sincePush[c]]
                     ELSE sincePush
    /\ UNCHANGED <<focus, defined, listeners, config, shortcuts, disableOnInputs,
                   registered, warnings>>
    /\ UnchangedOthers

\* the browser delivers a keyup: only useMagicKeys listens for it
KeyUp(e) ==
    /\ LET st == Dispatch(listeners, e, DispatchState)
       IN  /\ history' = st.history
           /\ timer' = st.timer
           /\ invoked' = st.invoked
           /\ prevented' = st.prevented
           /\ seen' = st.seen
    /\ ev' = e
    /\ UNCHANGED <<focus, defined, listeners, config, shortcuts, disableOnInputs,
                   registered, warnings, prev, since,
                   sincePush>>
    /\ UnchangedOthers

\* one time unit passes; a timer that is due fires before time moves on
Tick ==
    /\ \A c \in Components : timer[c] # 0
    /\ \/ \E c \in Components : timer[c] > 0
       \/ monitoring /\ since <= chainDelay
    /\ timer' = [c \in Components |-> IF timer[c] > 0 THEN timer[c] - 1 ELSE timer[c]]
    /\ since' = IF monitoring THEN Min(since + 1, chainDelay + 1) ELSE since
    /\ sincePush' = IF monitoring
                     THEN [c \in Components |-> Min(sincePush[c] + 1, chainDelay + 1)]
                     ELSE sincePush
    /\ ev' = NoEvent
    /\ invoked' = <<>>
    /\ prevented' = FALSE
    /\ seen' = <<>>
    /\ UNCHANGED <<focus, defined, listeners, config, shortcuts, disableOnInputs, history,
                   registered, warnings, prev>>
    /\ UnchangedOthers

\* lines 166-169: the debounce timer fires and runs resetHistory
TimerExpiresKeepsHistory(c) ==
    /\ timer[c] = 0
    /\ timer' = [timer EXCEPT ![c] = NoTimer]
    /\ ev' = [type |-> "expire", component |-> c]
    /\ invoked' = <<>>
    /\ prevented' = FALSE
    /\ seen' = <<>>
    /\ UNCHANGED <<focus, defined, listeners, config, shortcuts, disableOnInputs, history,
                   registered, warnings, prev, since, sincePush>>
    /\ UnchangedOthers
TimerExpires(c) ==
    /\ timer[c] = 0
    /\ timer' = [timer EXCEPT ![c] = NoTimer]
    /\ history' = [history EXCEPT ![c] = <<>>]
    /\ ev' = [type |-> "expire", component |-> c]
    /\ invoked' = <<>>
    /\ prevented' = FALSE
    /\ seen' = <<>>
    /\ UNCHANGED <<focus, defined, listeners, config, shortcuts, disableOnInputs,
                   registered, warnings, prev, since,
                   sincePush>>
    /\ UnchangedOthers

\* the user moves the focus
Focus(el) ==
    /\ el # focus
    /\ focus' = el
    /\ ev' = NoEvent
    /\ invoked' = <<>>
    /\ prevented' = FALSE
    /\ seen' = <<>>
    /\ UNCHANGED <<defined, listeners, config, shortcuts, disableOnInputs, history, timer,
                   registered, warnings, prev, since,
                   sincePush>>
    /\ UnchangedOthers

\* lines 240-241: the caller calls the function defineShortcuts returned, which
\* is the stop function of useEventListener('keydown', onKeyDown)
Stop(c) ==
    /\ Defined(c)
    /\ listeners' = Without(listeners, KeyDownListener(c))
    /\ ev' = [type |-> "stop", component |-> c,
              again |-> ~HasListener(KeyDownListener(c))]
    /\ invoked' = <<>>
    /\ prevented' = FALSE
    /\ seen' = <<>>
    /\ UNCHANGED <<focus, defined, config, shortcuts, disableOnInputs, history, timer,
                   registered, warnings, prev, since,
                   sincePush>>
    /\ UnchangedOthers

\* the component unmounts: its effect scope is disposed, which stops the
\* listeners useMagicKeys (line 188) and useEventListener (line 240) added
Unmount(c) ==
    /\ Defined(c)
    /\ listeners' = Without(Without(listeners, KeyDownListener(c)), MagicListener(c))
    /\ ev' = NoEvent
    /\ invoked' = <<>>
    /\ prevented' = FALSE
    /\ seen' = <<>>
    /\ UNCHANGED <<focus, defined, config, shortcuts, disableOnInputs, history, timer,
                   registered, warnings, prev, since,
                   sincePush>>
    /\ UnchangedOthers

InitVue ==
    /\ focus = el_body
    /\ defined = {}
    /\ listeners = <<>>
    /\ config = [c \in Components |-> <<>>]
    /\ shortcuts = [c \in Components |-> <<>>]
    /\ disableOnInputs = [c \in Components |-> TRUE]
    /\ history = [c \in Components |-> <<>>]
    /\ timer = [c \in Components |-> NoTimer]
    /\ registered = <<>>
    /\ warnings = <<>>
    /\ ev = NoEvent
    /\ invoked = <<>>
    /\ prevented = FALSE
    /\ seen = <<>>
    /\ prev = NoPrev
    /\ since = 0
    /\ sincePush = [c \in Components |-> 0]

\* One binding, every event. The configs of these runs, of the chain runs and
\* of the two-component runs hold no meta or command token, so that the
\* platform decides nothing in them: they run off macOS.
Init ==
    /\ InitVue /\ macOS = FALSE /\ monitoring = FALSE
    /\ InitHotkeys /\ InitDetector /\ InitSequence /\ InitParse

Next ==
    \/ \E cfg \in Configs, opt \in BOOLEAN : DefineShortcuts("A", cfg, opt, macOS)
    \/ \E e \in KeyDownEvents : KeyDown(e)
    \/ \E e \in KeyUpEvents : KeyUp(e)
    \/ Tick
    \/ TimerExpires("A")
    \/ \E el \in Elements : Focus(el)
    \/ Stop("A")
    \/ Unmount("A")

Spec == Init /\ [][Next]_vars

\* One binding and unmodified keys, with the time between keydowns recorded.
InitChain ==
    /\ InitVue /\ macOS = FALSE /\ monitoring = TRUE
    /\ InitHotkeys /\ InitDetector /\ InitSequence /\ InitParse

NextChain ==
    \/ \E cfg \in ChainConfigs, opt \in BOOLEAN : DefineShortcuts("A", cfg, opt, macOS)
    \/ \E e \in PlainKeyDownEvents : KeyDown(e)
    \/ Tick
    \/ TimerExpires("A")
    \/ \E el \in {el_body, el_input} : Focus(el)

SpecChain == InitChain /\ [][NextChain]_vars

\* Two components on one page.
NextTwo ==
    \/ \E c \in Components, cfg \in PageConfigs : DefineShortcuts(c, cfg, TRUE, macOS)
    \/ \E e \in PageKeyDownEvents : KeyDown(e)
    \/ Tick
    \/ \E c \in Components : TimerExpires(c)
    \/ \E c \in Components : Unmount(c)

SpecTwo == Init /\ [][NextTwo]_vars

\* The two scoped managers of the hotkeys demo page.
NextScoped ==
    \/ \E m \in Managers, key \in HotkeyKeys : ScopedBind(m, key)
    \/ \E m \in Managers, key \in HotkeyKeys : ScopedUnbind(m, key)
    \/ \E m \in Managers : ScopedActivate(m)
    \/ \E m \in Managers : ScopedDeactivate(m)
    \/ \E m \in Managers : ScopedDestroy(m)
    \/ \E key \in HotkeyKeys, target \in HotkeyTargets : HotkeyDown(key, target)

SpecScoped == Init /\ [][NextScoped]_vars

\* One hotkeys-js binding and the key events hotkeys-js sees.
NextHotkeys ==
    \/ \E cfg \in HotkeyConfigs, scope \in ScopeOptions, dis \in BOOLEAN,
          f \in FilterFns \cup {NoFilter} : HkDefine("P", cfg, scope, dis, f)
    \/ HkMount("P")
    \/ HkUnbindAll("P")
    \/ \E newScope \in NewScopes : HkChangeScope("P", newScope)
    \/ \E cfg \in HotkeyConfigs : HkRebind("P", cfg)
    \/ \E key \in HotkeyKeys, target \in BindingTargets : HotkeyDown(key, target)

SpecHotkeys == Init /\ [][NextHotkeys]_vars

\* Two hotkeys-js bindings with options of their own, under the scope 'all'.
OptionsConfig(b) == IF b = "P" THEN <<"ctrl+b">> ELSE <<"j">>
NextOptions ==
    \/ \E b \in HotkeyBindings, dis \in BOOLEAN, f \in FilterFns \cup {NoFilter} :
          HkDefine(b, OptionsConfig(b), "all", dis, f)
    \/ \E b \in HotkeyBindings : HkMount(b)
    \/ \E key \in HotkeyKeys, target \in BindingTargets : HotkeyDown(key, target)

SpecOptions == Init /\ [][NextOptions]_vars

\* One VueUse binding and two hotkeys-js bindings, bound and detached.
DetachConfig == <<"ctrl+b">>
NextDetach ==
    \/ DefineShortcuts("A", ConfigChainAndBare, TRUE, macOS)
    \/ \E e \in PlainKeyDownEvents : KeyDown(e)
    \/ Tick
    \/ TimerExpires("A")
    \/ Stop("A")
    \/ \E b \in HotkeyBindings : HkDefine(b, DetachConfig, "all", TRUE, NoFilter)
    \/ \E b \in HotkeyBindings : HkMount(b)
    \/ \E b \in HotkeyBindings : HkUnbindAll(b)

SpecDetach == Init /\ [][NextDetach]_vars

\* One conflict detector.
NextDetector ==
    \/ \E key \in DetectorKeys, scope \in DetectorScopes, component \in DetectorOwners :
            DetectorRegister(key, scope, component)
    \/ \E key \in DetectorKeys : DetectorUnregister(key)

SpecDetector == Init /\ [][NextDetector]_vars

\* One binding on either platform, with meta shortcuts and malformed specs.
InitPlatform ==
    /\ InitVue /\ macOS \in BOOLEAN /\ monitoring = FALSE
    /\ InitHotkeys /\ InitDetector /\ InitSequence /\ InitParse

NextPlatform ==
    \/ \E cfg \in PlatformConfigs, opt \in BOOLEAN : DefineShortcuts("A", cfg, opt, macOS)
    \/ \E e \in PlatformKeyDownEvents : KeyDown(e)
    \/ Tick
    \/ TimerExpires("A")
    \/ \E el \in {el_body, el_input} : Focus(el)

SpecPlatform == InitPlatform /\ [][NextPlatform]_vars

\* One binding with a named-key chain: which keys are pushed.
NextPush ==
    \/ \E opt \in BOOLEAN : DefineShortcuts("A", ConfigNamedChain, opt, macOS)
    \/ \E e \in PushKeyDownEvents : KeyDown(e)
    \/ Tick
    \/ TimerExpires("A")
    \/ \E el \in {el_body, el_input} : Focus(el)

SpecPush == Init /\ [][NextPush]_vars

\* One key sequence detector.
NextSequence ==
    \/ \E seq \in Sequences, rst \in BOOLEAN : SeqCreate(seq, rst)
    \/ \E k \in SeqKeys : SeqKeyDown(k)
    \/ SeqTick
    \/ SeqTimeout
    \/ SeqReset
    \/ SeqDestroy

SpecSequence == Init /\ [][NextSequence]_vars

\* parseShortcut on its own.
InitParseOnly ==
    /\ InitVue /\ macOS = FALSE /\ monitoring = FALSE
    /\ InitHotkeys /\ InitDetector /\ InitSequence /\ InitParseInputs

NextParse == Parse

SpecParse == InitParseOnly /\ [][NextParse]_vars

---------------------------------------------------------------------------
(* Vocabulary of the claims about defineShortcuts (VueUse version) *)

Handler(c, i) == [component |-> c, handler |-> i]
Count(seq, x) == Cardinality({n \in 1..Len(seq) : seq[n] = x})
InvokedOf(c) == {n \in 1..Len(invoked) : invoked[n].component = c}
IsKeyDown == ev.type = "keydown"

\* the event's four modifier flags equal the parsed flags of s
FlagsEqual(s, e) ==
    /\ s.ctrlKey = e.ctrlKey
    /\ s.metaKey = e.metaKey
    /\ s.shiftKey = e.shiftKey
    /\ s.altKey = e.altKey

\* the focused element is an input, a textarea or content-editable
TextEntryFocused ==
    \/ focus = el_input
    \/ focus = el_textarea
    \/ focus = el_editable

\* s is a chained shortcut of exactly the two key tokens a and b
IsChainOf(s, a, b) ==
    /\ s.chained
    /\ Len(a) > 0 /\ Len(b) > 0
    /\ ~Includes(a, <<"-">>) /\ ~Includes(b, <<"-">>)
    /\ s.key = a \o <<"-">> \o b

KeyTokens == {ToLowerCase(e.key) : e \in KeyDownEvents}

\* This step delivers keydown b to binding c, which is attached and whose
\* guard does not report typing; the keydown before it was a, which c saw
\* attached, not typing and with an empty chain history.
ChainStep(c, a, b) ==
    /\ ev'.type = "keydown"
    /\ ToLowerCase(ev'.key) = b
    /\ prev.key = a
    /\ c \in prev.fresh
    /\ Attached(c)
    /\ ~isTyping(c)

---------------------------------------------------------------------------
(* C1 *)

\* C1: in a live binding whose typing guard does not report typing, a keydown
\* whose lowercased key equals the base key of a combined or bare shortcut of
\* the binding and whose four flags equal its parsed flags invokes that
\* shortcut's handler exactly once, whatever else the binding holds.
C1_MatchingKeydownInvokesOnce ==
    \A c \in Components : \A i \in 1..Len(shortcuts[c]) :
        LET s == shortcuts[c][i]
        IN  ( /\ IsKeyDown
              /\ Attached(c)
              /\ ~TextEntryFocused
              /\ ~s.chained
              /\ s.key = ToLowerCase(ev.key)
              /\ FlagsEqual(s, ev) )
            => Count(invoked, Handler(c, s.handler)) = 1

---------------------------------------------------------------------------
(* C2 *)

\* C2 as stated: for every accepted chained shortcut a-b of a binding,
\* keydown a from an empty history followed by keydown b before chainDelay
\* has elapsed invokes that shortcut's handler exactly once, and keydown b
\* more than chainDelay after keydown a invokes no handler of the binding.
C2_EveryChainHandlerOnce ==
    [][ \A c \in Components : \A i \in 1..Len(shortcuts[c]) :
          \A a \in KeyTokens, b \in KeyTokens :
            LET s == shortcuts[c][i]
            IN  (IsChainOf(s, a, b) /\ ChainStep(c, a, b))
                => /\ (since < chainDelay
                         => Count(invoked', Handler(c, s.handler)) = 1)
                   /\ (since > chainDelay
                         => \A n \in 1..Len(invoked') : invoked'[n].component # c)
      ]_vars

\* C2, amended: the handler invoked exactly once is that of the first
\* shortcut in config order whose lowercased string is a-b, and it is the
\* only handler of the binding the keydown invokes; keydown b more than
\* chainDelay after keydown a invokes no handler of the binding.
C2_FirstChainHandlerOnce ==
    [][ \A c \in Components : \A i \in 1..Len(shortcuts[c]) :
          \A a \in KeyTokens, b \in KeyTokens :
            LET s == shortcuts[c][i]
                first == \A j \in 1..(i - 1) : shortcuts[c][j].key # s.key
            IN  (IsChainOf(s, a, b) /\ first /\ ChainStep(c, a, b))
                => /\ (since < chainDelay
                         => /\ Count(invoked', Handler(c, s.handler)) = 1
                            /\ \A n \in 1..Len(invoked') :
                                 invoked'[n].component = c
                                    => invoked'[n] = Handler(c, s.handler))
                   /\ (since > chainDelay
                         => \A n \in 1..Len(invoked') : invoked'[n].component # c)
      ]_vars

\* a chained handler was invoked by the second key of its chain
C2_Witness ==
    /\ IsKeyDown
    /\ \E i \in 1..Len(shortcuts["A"]) :
         /\ shortcuts["A"][i].chained
         /\ invoked = <<Handler("A", shortcuts["A"][i].handler)>>

---------------------------------------------------------------------------
(* C3 *)

\* C3: while an input, a textarea or a content-editable element has the focus
\* and disableOnInputs is true, no key event invokes a handler of the binding.
C3_NoHandlerWhileTyping ==
    \A c \in Components :
        (ev.type \in {"keydown", "keyup"} /\ disableOnInputs[c] /\ TextEntryFocused)
            => InvokedOf(c) = {}

\* a keydown that equals a bound shortcut arrived in a textarea and in a
\* content-editable element, and nothing was invoked
C3_Witness ==
    /\ IsKeyDown
    /\ Attached("A")
    /\ disableOnInputs["A"]
    /\ focus \in {el_textarea, el_editable}
    /\ \E i \in 1..Len(shortcuts["A"]) :
         /\ CombinedTest(shortcuts["A"][i], ev)
         /\ ~SkipsCombined(shortcuts["A"], ToLowerCase(ev.key))
    /\ invoked = <<>>

---------------------------------------------------------------------------
(* C5 *)

\* which of two components registered its listeners first
RegisteredBefore(c, d) ==
    \E m, n \in 1..Len(listeners) :
        m < n /\ listeners[m].component = c /\ listeners[n].component = d

\* C5: when two attached bindings bind the same shortcut string, a keydown
\* that invokes the handler one of them holds for it invokes the other's too,
\* the earlier registrant's first.
C5_BothHandlersInOrder ==
    \A c \in Components, d \in Components :
      \A i \in 1..Len(shortcuts[c]), j \in 1..Len(shortcuts[d]) :
        LET hc == Handler(c, shortcuts[c][i].handler)
            hd == Handler(d, shortcuts[d][j].handler)
        IN  ( /\ c # d
              /\ Attached(c) /\ Attached(d)
              /\ RegisteredBefore(c, d)
              /\ config[c][shortcuts[c][i].handler] = config[d][shortcuts[d][j].handler]
              /\ IsKeyDown
              /\ (Count(invoked, hc) > 0 \/ Count(invoked, hd) > 0) )
            => \E m, n \in 1..Len(invoked) :
                   m < n /\ invoked[m] = hc /\ invoked[n] = hd

---------------------------------------------------------------------------
(* C7 *)

\* C7: with g-h and a bare h in one binding, keydown g, more than chainDelay
\* with no key, then keydown h does not invoke the g-h handler and does invoke
\* the bare h handler.
C7_BareKeyAfterTimeout ==
    [][ \A c \in Components :
          \A i \in 1..Len(shortcuts[c]), j \in 1..Len(shortcuts[c]) :
            LET chain == shortcuts[c][i]
                bare == shortcuts[c][j]
            IN  ( /\ IsChainOf(chain, <<"g">>, <<"h">>)
                  /\ ~bare.chained /\ bare.key = <<"h">> /\ FlagsEqual(bare, NoMods)
                  /\ ChainStep(c, <<"g">>, <<"h">>)
                  /\ FlagsEqual(NoMods, ev')
                  /\ since > chainDelay )
                => /\ Count(invoked', Handler(c, chain.handler)) = 0
                   /\ Count(invoked', Handler(c, bare.handler)) = 1
      ]_vars

---------------------------------------------------------------------------
(* C8 *)

\* C8: the handler of a combined or bare shortcut is invoked only by a keydown
\* whose four modifier flags each equal the shortcut's parsed flags.
C8_CombinedOnlyOnExactFlags ==
    \A c \in Components : \A i \in 1..Len(shortcuts[c]) :
        LET s == shortcuts[c][i]
        IN  (~s.chained /\ Count(invoked, Handler(c, s.handler)) > 0)
            => (IsKeyDown /\ FlagsEqual(s, ev))

\* ctrl+s invoked the handler of a shortcut parsed to ctrl and s
C8_Witness ==
    /\ IsKeyDown
    /\ ev.ctrlKey /\ ~ev.shiftKey
    /\ \E i \in 1..Len(shortcuts["A"]) :
         /\ ~shortcuts["A"][i].chained
         /\ shortcuts["A"][i].ctrlKey
         /\ invoked = <<Handler("A", shortcuts["A"][i].handler)>>

---------------------------------------------------------------------------
(* C9 *)

\* the function defineShortcuts returned has been called
Stopped(c) == Defined(c) /\ ~HasListener(KeyDownListener(c))

\* C9: after the function defineShortcuts returned has been called, no
\* keydown invokes a handler of that binding.
C9_NoHandlerAfterStop ==
    \A c \in Components : Stopped(c) => InvokedOf(c) = {}

---------------------------------------------------------------------------
(* C10 *)

\* C10: with disableOnInputs false the guard never reports typing, and a
\* keydown that equals the first combined or bare shortcut of its kind in the
\* binding, and is part of no chain, invokes its handler whatever has focus.
C10_GuardOffNeverTyping ==
    \A c \in Components :
        (Defined(c) /\ ~disableOnInputs[c])
        => /\ ~isTyping(c)
           /\ \A i \in 1..Len(shortcuts[c]) :
                LET s == shortcuts[c][i]
                IN  ( /\ IsKeyDown
                      /\ HasListener(MagicListener(c))
                      /\ ~s.chained
                      /\ s.key = ToLowerCase(ev.key)
                      /\ FlagsEqual(s, ev)
                      /\ \A j \in 1..(i - 1) :
                           ~(/\ ~shortcuts[c][j].chained
                             /\ shortcuts[c][j].key = s.key
                             /\ FlagsEqual(shortcuts[c][j], ev))
                      /\ \A j \in 1..Len(shortcuts[c]) :
                           shortcuts[c][j].chained
                              => ~Includes(shortcuts[c][j].key, ToLowerCase(ev.key)) )
                    => Count(invoked, Handler(c, s.handler)) = 1

\* a handler ran while an input had the focus
C10_Witness ==
    /\ IsKeyDown
    /\ ~disableOnInputs["A"]
    /\ focus = el_input
    /\ InvokedOf("A") # {}

---------------------------------------------------------------------------
(* C4 *)

\* C4: after register has been called twice with the same key and two
\* different owners, getConflicts() holds exactly one entry, under that key,
\* listing both owners.
C4_TwoOwnersOneConflict ==
    ( /\ Len(cdCalls) = 2
      /\ cdCalls[1].op = "register" /\ cdCalls[2].op = "register"
      /\ cdCalls[1].key = cdCalls[2].key
      /\ cdCalls[1].component # cdCalls[2].component )
    => LET conflicts == getConflicts(registeredKeys)
       IN  /\ DOMAIN conflicts = {cdCalls[1].key}
           /\ conflicts[cdCalls[1].key] =
                <<[scope |-> cdCalls[1].scope, component |-> cdCalls[1].component],
                  [scope |-> cdCalls[2].scope, component |-> cdCalls[2].component]>>

---------------------------------------------------------------------------
(* C6 *)

\* C6: a handler bound through the 'editor' manager is not invoked by any key
\* event while 'viewer' is the active scope; once the editor manager's
\* activate() has made 'editor' the active scope, a key event hotkeys-js lets
\* through invokes the handler the manager holds for that key.
C6_ScopeIsolation ==
    /\ (hkEv.type = "keydown" /\ hkScope = "viewer")
          => \A n \in 1..Len(hkInvoked) : hkInvoked[n].owner # "editor"
    /\ \A k \in HotkeyKeys :
          ( /\ hkEv.type = "keydown"
            /\ hkEv.key = k
            /\ hkEv.target = el_body
            /\ hkScope = "editor"
            /\ k \in scoped["editor"] )
          => Count(hkInvoked, ScopedHandler("editor", k)) > 0

\* a key bound in 'editor' and not in 'viewer' was pressed while 'editor' is
\* the active scope, and the editor manager's handler is all that was invoked
C6_Witness ==
    /\ hkEv.type = "keydown"
    /\ hkScope = "editor"
    /\ hkEv.key \in scoped["editor"] \ scoped["viewer"]
    /\ hkInvoked = <<ScopedHandler("editor", hkEv.key)>>

---------------------------------------------------------------------------
(* Vocabulary of the claims about parseShortcut *)

Parsed == pOut # Pending /\ pOut # Null
HasChar(s, ch) == \E i \in 1..Len(s) : s[i] = ch
AllFlagsFalse(s) == ~s.ctrlKey /\ ~s.metaKey /\ ~s.shiftKey /\ ~s.altKey
ModifierNames == {tok_meta, tok_command, tok_ctrl, tok_shift, tok_alt, tok_option}
IsPlainToken(x) == x \notin ModifierNames
\* the lowercased tokens the spec string was written from
LowerTokens == [i \in 1..Len(pTokens) |-> ToLowerCase(pTokens[i])]
HasToken(x) == \E i \in 1..Len(pTokens) : LowerTokens[i] = x

---------------------------------------------------------------------------
(* C12 *)

\* C12 as stated: of an accepted spec, lowercased: with '-' and no '_' it is
\* chained, its key the whole lowercased string and its flags all false; with
\* '_' it is combined; with neither it is non-chained, its flags all false
\* and its key the whole lowercased string.
C12_ClassifiesEverySpec ==
    Parsed =>
        LET k == ToLowerCase(pKey)
        IN  /\ (HasChar(k, "-") /\ ~HasChar(k, "_"))
                  => (pOut.chained /\ pOut.key = k /\ AllFlagsFalse(pOut))
            /\ HasChar(k, "_") => ~pOut.chained
            /\ (~HasChar(k, "-") /\ ~HasChar(k, "_"))
                  => (~pOut.chained /\ pOut.key = k /\ AllFlagsFalse(pOut))

\* C12, amended: a spec with neither separator that is itself one of the six
\* modifier names is non-chained with the empty key and, before platform
\* normalization, exactly that modifier's flag set; every other spec is
\* classified as stated.
C12_ClassifiesButModifierNames ==
    Parsed =>
        LET k == ToLowerCase(pKey)
        IN  /\ (HasChar(k, "-") /\ ~HasChar(k, "_"))
                  => (pOut.chained /\ pOut.key = k /\ AllFlagsFalse(pOut))
            /\ HasChar(k, "_") => ~pOut.chained
            /\ (~HasChar(k, "-") /\ ~HasChar(k, "_") /\ k \notin ModifierNames)
                  => (~pOut.chained /\ pOut.key = k /\ AllFlagsFalse(pOut))
            /\ k \in ModifierNames
                  => /\ ~pOut.chained
                     /\ pOut.key = <<>>
                     /\ pBase.ctrlKey = (k = tok_ctrl)
                     /\ pBase.metaKey = (k \in {tok_meta, tok_command})
                     /\ pBase.shiftKey = (k = tok_shift)
                     /\ pBase.altKey = (k \in {tok_alt, tok_option})

\* a chain written in upper case was parsed to its lowercased string
C12_Witness ==
    /\ pKey = <<"a", "-", "B">>
    /\ Parsed
    /\ pOut.chained
    /\ pOut.key = <<"a", "-", "b">>

---------------------------------------------------------------------------
(* C13 *)

\* the positions of the hyphens of the spec string
Hyphens == {i \in 1..Len(pKey) : pKey[i] = "-"}

\* C13: a hyphen-grammar spec (a '-' and no '_') is accepted only when it is
\* two non-empty segments joined by one hyphen: one hyphen, neither first nor
\* last.
C13_ChainIsTwoSegments ==
    (pOut # Pending /\ Hyphens # {} /\ ~HasChar(pKey, "_"))
        => (pOut # Null <=> (Cardinality(Hyphens) = 1
                             /\ 1 \notin Hyphens /\ Len(pKey) \notin Hyphens))

---------------------------------------------------------------------------
(* C14 *)

\* C14: of an accepted combined spec, before platform normalization: ctrlKey
\* iff some token is 'ctrl', metaKey iff some is 'meta' or 'command', shiftKey
\* iff some is 'shift', altKey iff some is 'alt' or 'option', and the key is
\* the other tokens, in their order, joined by '_'.
C14_CombinedFlagsAndKey ==
    (Parsed /\ Len(pTokens) >= 2)
        => /\ pBase.ctrlKey = HasToken(tok_ctrl)
           /\ pBase.metaKey = (HasToken(tok_meta) \/ HasToken(tok_command))
           /\ pBase.shiftKey = HasToken(tok_shift)
           /\ pBase.altKey = (HasToken(tok_alt) \/ HasToken(tok_option))
           /\ pBase.key = Join(SelectSeq(LowerTokens, IsPlainToken), "_")

\* 'option_command_s' was parsed to alt, meta and the key 's'
C14_Witness ==
    /\ pTokens = <<tok_option, tok_command, <<"s">>>>
    /\ Parsed
    /\ pBase.altKey /\ pBase.metaKey /\ ~pBase.ctrlKey /\ ~pBase.shiftKey
    /\ pBase.key = <<"s">>

---------------------------------------------------------------------------
(* C15 *)

\* the underscore-separated tokens of a spec string, lowercased
SpecTokens(str) == Split(ToLowerCase(str), "_")
NamesMeta(str) ==
    ArrayIncludes(SpecTokens(str), tok_meta) \/ ArrayIncludes(SpecTokens(str), tok_command)
NamesCtrl(str) == ArrayIncludes(SpecTokens(str), tok_ctrl)

\* C15: off macOS a spec that names meta (or command) and not ctrl is active
\* with metaKey false and ctrlKey true, so that 'meta_k' is invoked by ctrl+k
\* and not by meta+k; a spec that names both, and every spec on macOS, keeps
\* the flags it names.
C15_MetaBecomesCtrlOffMac ==
    \A c \in Components : \A i \in 1..Len(shortcuts[c]) :
        LET s == shortcuts[c][i]
            str == config[c][s.handler]
        IN  /\ (~macOS /\ NamesMeta(str) /\ ~NamesCtrl(str))
                  => (~s.metaKey /\ s.ctrlKey)
            /\ (macOS \/ ~NamesMeta(str) \/ NamesCtrl(str))
                  => (s.metaKey = NamesMeta(str) /\ s.ctrlKey = NamesCtrl(str))
            /\ ( /\ str = meta_k
                 /\ ~macOS
                 /\ IsKeyDown
                 /\ Attached(c) /\ ~isTyping(c)
                 /\ ToLowerCase(ev.key) = <<"k">>
                 /\ ~ev.shiftKey /\ ~ev.altKey )
                  => (Count(invoked, Handler(c, s.handler)) = 1
                        <=> (ev.ctrlKey /\ ~ev.metaKey))
                     /\ Count(invoked, Handler(c, s.handler)) <= 1

\* off macOS, ctrl+k invoked the handler bound as 'meta_k'
C15_Witness ==
    /\ ~macOS
    /\ config["A"] = ConfigMeta
    /\ IsKeyDown
    /\ ev.ctrlKey /\ ~ev.metaKey
    /\ invoked = <<Handler("A", 1)>>

---------------------------------------------------------------------------
(* C16 *)

\* the i-th spec of c's config fails its shape check
Rejected(c, i) == parseShortcut(config[c][i], i, macOS) = Null
\* the active shortcuts of c that carry handler i
ActiveOf(c, i) == {n \in 1..Len(shortcuts[c]) : shortcuts[c][n].handler = i}

\* C16: a binding call whose config holds specs that fail their shape check
\* completes; a rejected spec has no parsed shortcut and no key event invokes
\* its handler; every other spec of the call has its parsed shortcut, and a
\* keydown that equals a combined or bare one of them (the first such, its
\* key in no chain) invokes its handler.
C16_RejectedSpecIsDropped ==
    \A c \in Components : \A i \in 1..Len(config[c]) :
        Defined(c) =>
            /\ Rejected(c, i)
                  => /\ ActiveOf(c, i) = {}
                     /\ Count(invoked, Handler(c, i)) = 0
            /\ ~Rejected(c, i)
                  => /\ Cardinality(ActiveOf(c, i)) = 1
                     /\ \A n \in ActiveOf(c, i) :
                          LET s == shortcuts[c][n]
                          IN  ( /\ IsKeyDown
                                /\ Attached(c) /\ ~isTyping(c)
                                /\ ~s.chained
                                /\ s.key = ToLowerCase(ev.key)
                                /\ FlagsEqual(s, ev)
                                /\ \A j \in 1..(n - 1) :
                                     ~(/\ ~shortcuts[c][j].chained
                                       /\ shortcuts[c][j].key = s.key
                                       /\ FlagsEqual(shortcuts[c][j], ev))
                                /\ \A j \in 1..Len(shortcuts[c]) :
                                     shortcuts[c][j].chained
                                        => ~Includes(shortcuts[c][j].key, ToLowerCase(ev.key)) )
                              => Count(invoked, Handler(c, i)) = 1

\* in a config whose first spec was rejected, ctrl+s invoked the handler of
\* the second spec, 'ctrl_s'
C16_Witness ==
    /\ config["A"] = ConfigMalformed
    /\ Rejected("A", 1) /\ Rejected("A", 3) /\ Rejected("A", 5)
    /\ IsKeyDown
    /\ invoked = <<Handler("A", 2)>>

---------------------------------------------------------------------------
(* C17 *)

\* when the n-th call on the detector was made, its key was registered
AlreadyRegistered(n) ==
    \E m \in 1..(n - 1) :
        /\ cdCalls[m].op = "register"
        /\ cdCalls[m].key = cdCalls[n].key
        /\ \A u \in (m + 1)..(n - 1) :
              ~(cdCalls[u].op = "unregister" /\ cdCalls[u].key = cdCalls[n].key)

\* C17: a register call for a key that is already registered, in the same
\* scope or in another, is carried out (the key then holds the new
\* registration) and is reported as a conflict by that call.
C17_DuplicateReportedNotRejected ==
    \A n \in 1..Len(cdCalls) :
        (cdCalls[n].op = "register" /\ AlreadyRegistered(n))
            => /\ cdCalls[n].warned
               /\ n = Len(cdCalls)
                     => \E i \in 1..Len(registeredKeys) :
                          registeredKeys[i] = [key |-> cdCalls[n].key,
                                               scope |-> cdCalls[n].scope,
                                               component |-> cdCalls[n].component]

---------------------------------------------------------------------------
(* C18 *)

\* C18: preventDefault is called on a key event exactly when the binding
\* invokes a handler for it, and every handler is called with the default
\* already prevented; an event that invokes nothing, one that only extends
\* the chain history included, is not default-prevented.
C18_PreventDefaultIffHandler ==
    (ev.type \in {"keydown", "keyup"})
        => /\ prevented <=> InvokedOf("A") # {}
           /\ Len(seen) = Len(invoked)
           /\ \A n \in 1..Len(seen) : seen[n]

\* a keydown ran a chained handler with the default prevented, and before it
\* a keydown had only extended the history
C18_Witness ==
    /\ IsKeyDown
    /\ prevented
    /\ seen = <<TRUE>>
    /\ \E i \in 1..Len(shortcuts["A"]) :
         /\ shortcuts["A"][i].chained
         /\ invoked = <<Handler("A", shortcuts["A"][i].handler)>>

---------------------------------------------------------------------------
(* C20 *)

---------------------------------------------------------------------------
(* C11 *)

\* C11: for a mounted hotkeys-js binding that was given a filter, whose scope
\* is the active one: a keydown of a key it has bound invokes the key's
\* handler exactly when filter(event) is true, whatever disableOnInputs is and
\* whatever the event's target.
C11_FilterDecidesAlone ==
    \A b \in HotkeyBindings :
        LET bd == hotkeyBindings[b]
        IN  ( /\ hkEv.type = "keydown"
              /\ bd.mounted
              /\ bd.filter # NoFilter
              /\ bd.currentScope = hkScope
              /\ hkEv.key \in bd.boundKeys )
            => (Count(hkInvoked, ConfigHandler(b, hkEv.key)) > 0
                  <=> FilterFn(bd.filter, hkEv))

---------------------------------------------------------------------------
(* C19 *)

\* C19: a call of the stop function of an already stopped VueUse binding
\* leaves the listeners, the chain history, the timer and the registry as they
\* were, and a call of unbindAll of a hotkeys-js binding that has unbound and
\* not bound since leaves hotkeys' handler table, scope and filter and the
\* binding's own state as they were.
C19_SecondDetachIsNoOp ==
    [][ /\ (ev'.type = "stop" /\ ev'.again)
              => UNCHANGED <<listeners, history, timer, registered, warnings,
                             shortcuts, config, disableOnInputs>>
        /\ (hkEv'.type = "unbindAll" /\ hkEv'.again)
              => UNCHANGED <<hkHandlers, hkScope, hkFilter, hotkeyBindings>>
      ]_vars

\* stop was called on a stopped binding while its debounce timer was pending,
\* and unbindAll on an unbound binding while another binding's handler for
\* the same key and scope was in hotkeys' table
C19_Witness ==
    /\ ev.type = "stop" /\ ev.again
    /\ timer["A"] # NoTimer
    /\ hkEv.type = "unbindAll" /\ hkEv.again
    /\ \E i \in 1..Len(hkHandlers) :
         /\ hkHandlers[i].method.owner # hkEv.owner
         /\ hkHandlers[i].key \in KeysOf(hotkeyBindings[hkEv.owner].config)
         /\ hkHandlers[i].scope = hotkeyBindings[hkEv.owner].currentScope

---------------------------------------------------------------------------
(* Vocabulary of the claims about the chain history and its timer *)

Last(seq) == seq[Len(seq)]

\* shortcut s is what keydown e asks for, given the chain history hist: a
\* chain whose key is the last token, a hyphen and the key, or a combined or
\* bare shortcut of the key and exactly the event's flags
ChainAsked(s, e, hist) ==
    /\ s.chained
    /\ Len(hist) > 0
    /\ s.key = Last(hist) \o <<"-">> \o ToLowerCase(e.key)
CombinedAsked(s, e) ==
    /\ ~s.chained
    /\ s.key = ToLowerCase(e.key)
    /\ FlagsEqual(s, e)

\* the positions in c's shortcuts of the handlers c invoked in this step
InvokedShortcuts(c) ==
    {i \in 1..Len(shortcuts[c]) :
        Count(invoked', Handler(c, shortcuts[c][i].handler)) > 0}

---------------------------------------------------------------------------
(* C21 *)

\* C21: one keydown makes a binding invoke at most one handler, once; the
\* shortcut it belongs to is asked for by the event, and no earlier shortcut
\* of the same grammar in config order is asked for too.
C21_OneHandlerFirstInOrder ==
    [][ \A c \in Components :
          ev'.type = "keydown"
          => /\ Cardinality({n \in 1..Len(invoked') : invoked'[n].component = c}) <= 1
             /\ Cardinality(InvokedShortcuts(c)) <= 1
             /\ \A i \in InvokedShortcuts(c) :
                  LET s == shortcuts[c][i]
                  IN  IF s.chained
                      THEN /\ ChainAsked(s, ev', history[c])
                           /\ \A j \in 1..(i - 1) :
                                ~ChainAsked(shortcuts[c][j], ev', history[c])
                      ELSE /\ CombinedAsked(s, ev')
                           /\ \A j \in 1..(i - 1) :
                                ~CombinedAsked(shortcuts[c][j], ev')
      ]_vars

\* ctrl+s arrived at a binding that holds 'Ctrl_S' and then 'ctrl_s', and
\* the handler of 'Ctrl_S' alone was invoked
C21_Witness ==
    /\ IsKeyDown
    /\ config["A"] = ConfigCaseVariants
    /\ ev.ctrlKey /\ ToLowerCase(ev.key) = <<"s">>
    /\ invoked = <<Handler("A", 1)>>

---------------------------------------------------------------------------
(* C22 *)

\* C22: after a keydown for which a binding invoked a handler, through a
\* chained or a combined match, that binding's chain history is empty.
C22_HistoryEmptyAfterHandler ==
    \A c \in Components :
        (IsKeyDown /\ InvokedOf(c) # {}) => history[c] = <<>>

\* a chained handler was invoked, which takes a non-empty history, and the
\* history is empty
C22_Witness ==
    /\ IsKeyDown
    /\ history["A"] = <<>>
    /\ \E i \in 1..Len(shortcuts["A"]) :
         /\ shortcuts["A"][i].chained
         /\ shortcuts["A"][i].key = <<"g", "-", "h">>
         /\ invoked = <<Handler("A", shortcuts["A"][i].handler)>>

---------------------------------------------------------------------------
(* C23 *)

\* C23: after a keydown for which a binding invoked a handler, no debounce
\* timer of that binding is pending.
C23_NoTimerAfterHandler ==
    \A c \in Components :
        (IsKeyDown /\ InvokedOf(c) # {}) => timer[c] = NoTimer

---------------------------------------------------------------------------
(* C24 *)

\* C24: the step in which a binding's debounce timer expires leaves its chain
\* history empty, invokes no handler, and leaves the parsed shortcuts, the
\* config, the listeners and the registry as they were.
C24_ExpiryOnlyClearsHistory ==
    [][ \A c \in Components :
          (ev'.type = "expire" /\ ev'.component = c)
          => /\ history'[c] = <<>>
             /\ timer'[c] = NoTimer
             /\ invoked' = <<>>
             /\ ~prevented'
             /\ UNCHANGED <<shortcuts, config, listeners, registered, warnings>>
      ]_vars

\* the timer expired after a keydown g that found the history empty and was
\* pushed
C24_Witness ==
    /\ ev.type = "expire"
    /\ prev.key = <<"g">>
    /\ "A" \in prev.fresh
    /\ sincePush["A"] = chainDelay
    /\ history["A"] = <<>>

---------------------------------------------------------------------------
(* C25 *)

\* C25: a binding has one debounce timer, which every push of a token sets to
\* the full chainDelay, and it expires only once chainDelay has passed since
\* the binding's most recent push, never earlier.
C25_ExpiryOnlyAfterQuietDelay ==
    [][ \A c \in Components :
          /\ (ev'.type = "keydown" /\ Pushed(c, history, history'))
                => timer'[c] = chainDelay
          /\ (ev'.type = "expire" /\ ev'.component = c)
                => sincePush[c] >= chainDelay
          /\ timer'[c] \in {NoTimer} \cup 0..chainDelay
      ]_vars

\* a second token was pushed onto a history that already held one, and the
\* timer has the full delay again
C25_Witness ==
    /\ IsKeyDown
    /\ Len(history["A"]) = 2
    /\ "A" \notin prev.fresh
    /\ sincePush["A"] = 0
    /\ timer["A"] = chainDelay

---------------------------------------------------------------------------
(* C26 *)

\* the two segments of a chain key
FirstSegment(s) == Split(s.key, "-")[1]
SecondSegment(s) == Split(s.key, "-")[2]

\* key equals or prefixes the first segment of some chain of shs, or is the
\* segment that follows the hyphen of one
InSomeChain(shs, key) ==
    \E i \in 1..Len(shs) :
        /\ shs[i].chained
        /\ (StartsWith(FirstSegment(shs[i]), key) \/ SecondSegment(shs[i]) = key)

\* this step delivers a keydown to c's onKeyDown, which is attached and not
\* typing, and no chain of c is completed by it
FailsChained(c) ==
    /\ ev'.type = "keydown"
    /\ Len(ev'.key) > 0
    /\ HasListener(KeyDownListener(c))
    /\ ~isTyping(c)
    /\ \A i \in 1..Len(shortcuts[c]) : ~ChainAsked(shortcuts[c][i], ev', history[c])

\* C26: a keydown that fails chained matching is pushed onto the history and
\* restarts the timer exactly when its key equals or prefixes the first
\* segment of a chain of the binding or is the segment after the hyphen of
\* one; a key of no chain that invokes no handler leaves history and timer as
\* they were.
C26_PushedIffInSomeChain ==
    [][ \A c \in Components :
          FailsChained(c)
          => LET key == ToLowerCase(ev'.key)
             IN  IF InSomeChain(shortcuts[c], key)
                 THEN /\ history'[c] = Append(history[c], key)
                      /\ timer'[c] = chainDelay
                 ELSE (\A n \in 1..Len(invoked') : invoked'[n].component # c)
                         => /\ history'[c] = history[c]
                            /\ timer'[c] = timer[c]
      ]_vars

---------------------------------------------------------------------------
(* C27 *)

---------------------------------------------------------------------------
(* C28 *)

\* C28: a keydown with ctrl, meta, shift or alt set does not extend any
\* binding's chain history and invokes no chained handler.
C28_ModifiedKeyIsNoChainKey ==
    [][ (ev'.type = "keydown" /\ ~FlagsEqual(NoMods, ev'))
        => \A c \in Components :
             /\ ~Pushed(c, history, history')
             /\ \A i \in InvokedShortcuts(c) : ~shortcuts[c][i].chained
      ]_vars

---------------------------------------------------------------------------
(* C29 *)

\* C29: once the function defineShortcuts returned has been called, the
\* binding has no debounce timer pending and no expiry of its timer runs.
C29_NoTimerAfterDetach ==
    \A c \in Components :
        Stopped(c) => /\ timer[c] = NoTimer
                      /\ ~(ev.type = "expire" /\ ev.component = c)

---------------------------------------------------------------------------
(* C30 *)

\* C30: once a binding is detached, by its stop function or by its component
\* unmounting, the ShortcutRegistry holds no registration of that binding;
\* and no step replaces the registration a shortcut string already has.
C30_RegistryFollowsBindings ==
    [][ /\ \A c \in Components :
             (c \in defined' /\ ~HasListener(KeyDownListener(c))')
                => \A i \in 1..Len(registered') : registered'[i].component # c
        /\ \A i \in 1..Len(registered), j \in 1..Len(registered') :
             registered[i].shortcut = registered'[j].shortcut
                => registered'[j] = registered[i]
      ]_vars

---------------------------------------------------------------------------
(* Vocabulary of the claims about the hotkeys-js bindings *)

\* hotkeys' table holds an entry of this key, scope and handler function
IsBound(key, scope, method) ==
    \E i \in 1..Len(hkHandlers) :
        hkHandlers[i] = [key |-> key, scope |-> scope, method |-> method]

---------------------------------------------------------------------------
(* C31 *)

\* C31: a registrant's handler stays in hotkeys' table for as long as the
\* registrant itself has bound and not unbound it, whatever other registrants
\* of the same key and scope unbind: that holds of every key in a binding's
\* boundKeys and of every key in a scoped manager's shortcuts.
C31_OthersUnbindLeavesMine ==
    /\ \A b \in HotkeyBindings : \A key \in hotkeyBindings[b].boundKeys :
          IsBound(key, hotkeyBindings[b].currentScope, ConfigHandler(b, key))
    /\ \A m \in Managers : \A key \in scoped[m] :
          IsBound(key, m, ScopedHandler(m, key))

---------------------------------------------------------------------------
(* C32 *)

\* C32: every entry of hotkeys' table that holds a handler of a binding is
\* under that binding's current scope, and a binding that has run unbindAll
\* and not bound since has no entry at all.
C32_BoundUnderCurrentScopeOnly ==
    \A b \in HotkeyBindings : \A i \in 1..Len(hkHandlers) :
        hkHandlers[i].method.owner = b
            => /\ hkHandlers[i].scope = hotkeyBindings[b].currentScope
               /\ ~hbDetached[b]

---------------------------------------------------------------------------
(* C33 *)

\* C33: a keydown that arrives while an input, a textarea or a
\* content-editable element has the focus, at a binding whose disableOnInputs
\* is true, leaves that binding's chain history and debounce timer as they
\* were and invokes none of its handlers.
C33_TypingKeydownChangesNothing ==
    [][ \A c \in Components :
          (ev'.type = "keydown" /\ disableOnInputs[c] /\ TextEntryFocused)
          => /\ history'[c] = history[c]
             /\ timer'[c] = timer[c]
             /\ \A n \in 1..Len(invoked') : invoked'[n].component # c
      ]_vars

\* keydown g arrived in an input while g was in the history and the timer
\* part-way through its delay, and both are as they were
C33_Witness ==
    /\ IsKeyDown
    /\ ToLowerCase(ev.key) = <<"g">>
    /\ FlagsEqual(NoMods, ev)
    /\ focus = el_input
    /\ disableOnInputs["A"]
    /\ Attached("A")
    /\ history["A"] = << <<"g">> >>
    /\ timer["A"] = chainDelay - 1

---------------------------------------------------------------------------
(* C34 *)

\* A binding that keeps, in place of the history list, one register holding
\* the last pushed token: the register is a history of at most one token.
Register(hist) == IF Len(hist) = 0 THEN <<>> ELSE <<Last(hist)>>
Registers(h) == [c \in Components |-> Register(h[c])]

\* its onKeyDown: a chain is looked up from the register, and a push
\* overwrites the register
onKeyDownRegister(c, e, st) ==
    IF Len(e.key) = 0 THEN st
    ELSE IF isTyping(c) THEN st
    ELSE LET key == ToLowerCase(e.key)
             reg == st.history[c]
             hits == {i \in 1..Len(shortcuts[c]) :
                        /\ shortcuts[c][i].chained
                        /\ Len(reg) = 1
                        /\ shortcuts[c][i].key = reg[1] \o <<"-">> \o key}
         IN  IF hits # {}
             THEN CallHandler(c, shortcuts[c][CHOOSE i \in hits :
                                                  \A j \in hits : i <= j].handler, st)
             ELSE IF ParticipatesInChain(shortcuts[c], key)
             THEN [st EXCEPT !.history[c] = <<key>>, !.timer[c] = chainDelay]
             ELSE st

RECURSIVE DispatchRegister(_, _, _)
DispatchRegister(ls, e, st) ==
    IF Len(ls) = 0 THEN st
    ELSE LET l == ls[1]
             next == IF l.kind = "magic" THEN onEventFired(l.component, e, st)
                     ELSE IF e.type = "keydown" THEN onKeyDownRegister(l.component, e, st)
                     ELSE st
         IN  DispatchRegister(Tail(ls), e, next)

\* C34: the binding with the register simulates the binding with the history
\* list, step by step: started with each register holding the last token of
\* the history, a keydown makes it invoke the same handlers in the same order
\* and leaves each register holding the last token of the new history, and a
\* timer expiry empties both.
C34_LastTokenRegisterSuffices ==
    [][ /\ ev'.type = "keydown"
           => LET st == DispatchRegister(listeners, ev',
                            [DispatchState EXCEPT !.history = Registers(history)])
              IN  /\ st.invoked = invoked'
                  /\ st.history = Registers(history')
                  /\ st.timer = timer'
        /\ \A c \in Components :
             (ev'.type = "expire" /\ ev'.component = c) => Register(history'[c]) = <<>>
      ]_vars

\* the history list holds two different tokens, h and then g, where the
\* register holds g alone, and the keydown that pushed g invoked nothing
C34_Witness ==
    /\ IsKeyDown
    /\ ToLowerCase(ev.key) = <<"g">>
    /\ config["A"] = ConfigChainAndBare
    /\ history["A"] = << <<"h">>, <<"g">> >>
    /\ Register(history["A"]) # history["A"]
    /\ invoked = <<>>

---------------------------------------------------------------------------
(* Key sequence detector: progress, bounds and destroy *)

\* whether destroy() is among the steps of log
SeqDestroyed(log) == \E i \in 1..Len(log) : log[i].type = "destroy"

\* the elements of the sequence pressed in order since the last reset, after
\* the steps of log: a keydown that continues the sequence is added, a
\* completed sequence starts over when the reset option is set, and any
\* other keydown, a timeout, reset() and destroy() leave nothing
RECURSIVE SeqProgress(_)
SeqProgress(log) ==
    IF log = <<>> \/ SeqDestroyed(log) THEN <<>>
    ELSE LET e == log[Len(log)]
             before == SeqProgress(SubSeq(log, 1, Len(log) - 1))
         IN  IF e.type # "keydown" THEN <<>>
             ELSE LET pressed == before \o <<ToLowerCase(e.key)>>
                  IN  IF ~StartsWith(sequence, pressed) THEN <<>>
                      ELSE IF pressed = sequence /\ resetOption THEN <<>>
                      ELSE pressed

SeqLogBefore == SubSeq(seqLog, 1, Len(seqLog) - 1)

\* the last step was a keydown that pressed the last element still missing
SeqCompleted ==
    /\ seqEv.type = "keydown"
    /\ ~SeqDestroyed(seqLog)
    /\ SeqProgress(SeqLogBefore) \o <<ToLowerCase(seqEv.key)>> = sequence

\* C35: the callback is invoked exactly by the keydown that completes the
\* sequence, every element having been pressed in order since the last reset;
\* currentIndex counts the elements pressed so far, so a differing key leaves
\* 0 and is not counted as the first element of a new attempt; and a timeout
\* interrupts an attempt only after a full timeout without a keydown.
C35_CallbackIffSequencePressed ==
    sequence # <<>> =>
        /\ seqCalled = (IF SeqCompleted THEN 1 ELSE 0)
        /\ currentIndex = Len(SeqProgress(seqLog))
        /\ (/\ seqEv.type = "timeout"
            /\ Len(SeqProgress(SeqLogBefore)) \in 1..(Len(sequence) - 1))
           => seqGap = timeout

\* h, then h again (a differing key where e was due), then h and E: the
\* second h was not counted, and the fourth keydown invoked the callback
C35_Witness ==
    /\ sequence = SeqHelp
    /\ seqCalled = 1
    /\ Len(seqLog) = 4
    /\ \A i \in 1..3 : seqLog[i] = [type |-> "keydown", key |-> <<"h">>]
    /\ seqEv = [type |-> "keydown", key |-> <<"E">>]

\* C36: with the reset option set and a sequence that is not empty,
\* currentIndex is at least 0 and less than the length of the sequence, and
\* a timer is pending exactly when currentIndex is greater than 0.
C36_IndexInRangeTimerIffProgress ==
    (sequence # <<>> /\ resetOption) =>
        /\ currentIndex \in 0..(Len(sequence) - 1)
        /\ (seqTimer # NoTimer) <=> (currentIndex > 0)

\* all but the last element are pressed and the timeout is about to fire
C36_Witness ==
    /\ sequence = SeqKonami
    /\ resetOption
    /\ currentIndex = Len(sequence) - 1
    /\ seqTimer = 0

\* C37: once destroy() has been called no step invokes the callback,
\* currentIndex is 0 and no timer is pending, and calling destroy() again
\* changes nothing.
C37_DestroyedStaysQuiet ==
    [][ /\ SeqDestroyed(seqLog')
           => /\ seqCalled' = 0
              /\ currentIndex' = 0
              /\ seqTimer' = NoTimer
              /\ ~seqListening'
        /\ (seqEv'.type = "destroy" /\ seqEv'.again)
           => UNCHANGED <<sequence, resetOption, currentIndex, seqTimer, seqListening>>
      ]_vars

\* h was pressed, destroy() called, then E pressed, which would have
\* completed the sequence, and destroy() called a second time
C37_Witness ==
    /\ sequence = SeqHelp
    /\ seqLog = << [type |-> "keydown", key |-> <<"h">>], [type |-> "destroy"],
                   [type |-> "keydown", key |-> <<"E">>], [type |-> "destroy"] >>
    /\ seqEv = [type |-> "destroy", again |-> TRUE]
    /\ seqCalled = 0

---------------------------------------------------------------------------
(* Registry entries and the active set *)

\* C38: every shortcut string a defineShortcuts call recorded in the registry
\* has, in that call's active set, the parsed shortcut made from it (the one
\* carrying the handler of that entry); a spec string the parser rejected is
\* not registered.
C38_RegisteredAreParsed ==
    \A j \in 1..Len(registered) :
        LET entry == registered[j]
        IN  \E k \in 1..Len(shortcuts[entry.component]) :
                shortcuts[entry.component][k].handler = entry.handler

---------------------------------------------------------------------------
(* Typing suppression of two hotkeys-js bindings *)

\* the filter a binding's own options ask for: what setupHotkeys installs
\* for them over the library's default
OwnFilter(bd) == setupHotkeys(bd, DefaultFilter)

\* C39: the disableOnInputs and filter options of a binding govern that
\* binding only: a keydown of a key a mounted binding has bound invokes its
\* handler exactly when the filter of that binding's own options lets the
\* event through, whatever options another binding was set up with.
C39_OwnOptionsGovernBinding ==
    \A b \in HotkeyBindings :
        LET bd == hotkeyBindings[b]
        IN  ( /\ hkEv.type = "keydown"
              /\ bd.mounted
              /\ hkEv.key \in bd.boundKeys )
            => (Count(hkInvoked, ConfigHandler(b, hkEv.key)) > 0
                  <=> HotkeysFilter(OwnFilter(bd), hkEv))

=============================================================================
